---- MODULE Spec2Model ----
(***************************************************************************)
(* Admission-and-translation pipeline of the image-builder gateway:        *)
(* identity resolution, distribution allow-listing, per-organization       *)
(* sliding-window quota, translation of the public compose request into    *)
(* the backend (osbuild-composer) request, submission and persistence.     *)
(*                                                                         *)
(* The handlers themselves are exercised by src/unnamed/part_000 (the v1   *)
(* server tests); what the tests fix is modelled from them, the rest from  *)
(* the design document.                                                    *)
(***************************************************************************)
EXTENDS Integers, Sequences, FiniteSets, TLC

NULL == "null"

(* ------------------------------------------------------------------ *)
(* Bounds of the model                                                 *)
(* ------------------------------------------------------------------ *)
MaxTime == 2
MaxComposes == 2
MaxStored == 2
MaxClones == 1

(* ------------------------------------------------------------------ *)
(* Tenants, configuration, registry                                    *)
(* ------------------------------------------------------------------ *)
\* organizations of tutils.AuthString0 and tutils.AuthString1
Org0 == "000000"
Org1 == "000001"
Orgs == {Org0, Org1}

\* the two distribution directories the servers are started with
Distributions == {"centos-8", "rhel-8"}

\* the distributions a directory marks restricted
RestrictedIn(dir) == IF dir = "testdata" THEN {"centos-8", "rhel-8"} ELSE {}

\* content of the allow file: distribution -> permitted organizations;
\* a distribution outside AllowedDistros is absent from the file
AllowedDistros == {"centos-8"}
AllowedOrgs(distro) == IF distro = "centos-8" THEN {Org0} ELSE {}

\* default {quota, slidingWindow} pair written by initQuotaFile, and one override
DefaultQuota == 2
DefaultSlidingWindow == 2
QuotaFile ==
  [o \in Orgs |->
     IF o = Org1 THEN [quota |-> 1, slidingWindow |-> DefaultSlidingWindow]
     ELSE [quota |-> DefaultQuota, slidingWindow |-> DefaultSlidingWindow]]

Limit(org) == QuotaFile[org].quota
Window(org) == QuotaFile[org].slidingWindow

(* ------------------------------------------------------------------ *)
(* Distribution registry (read side: GetArchitectures)                 *)
(* ------------------------------------------------------------------ *)
ArchitecturesOf(distro) == {"x86_64", "aarch64"}

ImageTypesOf(distro, arch) ==
  IF arch = "x86_64"
  THEN {"aws", "gcp", "azure", "ami", "vhd", "guest-image", "image-installer",
        "vsphere", "vsphere-ova"}
  ELSE {"aws", "guest-image", "image-installer"}

\* repositories of (distribution, architecture); rhsm marks the CDN paths
RepositoriesOf(distro, arch) ==
  IF arch \notin ArchitecturesOf(distro) THEN << >>
  ELSE IF distro = "centos-8"
  THEN << [baseurl |-> "centos/8-stream/BaseOS/" \o arch, rhsm |-> FALSE],
          [baseurl |-> "centos/8-stream/AppStream/" \o arch, rhsm |-> FALSE],
          [baseurl |-> "centos/8-stream/extras/" \o arch, rhsm |-> FALSE] >>
  ELSE << [baseurl |-> "cdn/rhel8/8.8/" \o arch \o "/baseos", rhsm |-> TRUE],
          [baseurl |-> "cdn/rhel8/8.8/" \o arch \o "/appstream", rhsm |-> TRUE] >>

\* the distribution name the backend is given
BackendDistribution(distro) == IF distro = "rhel-8" THEN "rhel-88" ELSE distro

(* ------------------------------------------------------------------ *)
(* Provisioning collaborator: GET /sources/{id}/upload_info            *)
(* ------------------------------------------------------------------ *)
UploadInfo(sourceId) ==
  IF sourceId = "1"
  THEN [aws |-> <<[accountId |-> "123456123456"]>>, azure |-> << >>]
  ELSE IF sourceId = "2"
  THEN [aws |-> << >>,
        azure |-> <<[resourceGroups |-> <<"group">>, subscriptionId |-> "id",
                     tenantId |-> "tenant"]>>]
  ELSE [aws |-> << >>, azure |-> << >>]

(* ------------------------------------------------------------------ *)
(* Request translator                                                  *)
(* ------------------------------------------------------------------ *)
UploadTypes == {"aws", "aws.s3", "azure", "gcp"}
InstallerImageTypes == {"image-installer", "edge-installer", "rhel-edge-installer"}

AzureMessage ==
  "Request must contain either (1) a source id, and no tenant or subscription ids or (2) tenant and subscription ids, and no source id."
AwsShareMessage == "Expected at least one source or account to share the image with"
UsersMessage == "User customization only applies to installer image types"
ArchitectureMessage == "Error at /image_requests/0/architecture"
UploadTypeMessage == "Error at /image_requests/0/upload_request/type"
MinItemsMessage == "Error at /image_requests: minimum number of items is 1"
MaxItemsMessage == "Error at /image_requests: maximum number of items is 1"
SourceMessage == "Unable to resolve source"

\* ceiling of the summed filesystem minSize, counted in GiB (64 GiB)
FSMaxSize == 64
AwsSizeMessage == "Total AWS image size cannot exceed FSMaxSize bytes"
AzureSizeMessage == "Total Azure image size cannot exceed FSMaxSize bytes"
AwsImageTypes == {"aws", "ami"}
AzureImageTypes == {"azure", "vhd"}

\* a result carries the backend value in out (a one-element sequence) or nothing
Reject(msg) == [ok |-> FALSE, status |-> 400, msg |-> msg, out |-> << >>]
Accept(out) == [ok |-> TRUE, status |-> 0, msg |-> "", out |-> <<out>>]

\* a source id is accepted whatever else is given
AzureOptionsValidLoose(o) ==
  o.sourceId # NULL \/ (o.tenantId # NULL /\ o.subscriptionId # NULL)

\* Azure: {sourceId alone} or {subscriptionId and tenantId, no sourceId}
AzureOptionsValid(o) ==
  ~ \/ (o.sourceId = NULL /\ (o.tenantId = NULL \/ o.subscriptionId = NULL))
    \/ (o.sourceId # NULL /\ (o.tenantId # NULL \/ o.subscriptionId # NULL))

\* AWS: at least one account or source to share with
AwsOptionsValid(o) ==
  ~ (Len(o.shareWithAccounts) = 0 /\ Len(o.shareWithSources) = 0)

\* the source ids are passed on as if they were account ids
ResolveAwsSourcesUnresolved(sources) == [ok |-> TRUE, accounts |-> sources]

\* every named source resolves to the cloud block the upload type needs
RECURSIVE ResolveAwsSources(_)
ResolveAwsSources(sources) ==
  IF sources = << >> THEN [ok |-> TRUE, accounts |-> << >>]
  ELSE LET info == UploadInfo(Head(sources))
           rest == ResolveAwsSources(Tail(sources))
       IN IF info.aws = << >> \/ ~rest.ok
          THEN [ok |-> FALSE, accounts |-> << >>]
          ELSE [ok |-> TRUE, accounts |-> <<info.aws[1].accountId>> \o rest.accounts]

\* the options are passed on without being looked at
BuildUploadOptionsUnchecked(ir) == Accept([type |-> ir.uploadType])

\* upload options of the backend request, or a rejection
BuildUploadOptions(ir) ==
  LET o == ir.options IN
  IF ir.uploadType \notin UploadTypes THEN Reject(UploadTypeMessage)
  ELSE IF ir.uploadType = "aws"
  THEN IF ~AwsOptionsValid(o) THEN Reject(AwsShareMessage)
       ELSE LET res == ResolveAwsSources(o.shareWithSources) IN
            IF ~res.ok THEN Reject(SourceMessage)
            ELSE Accept([type |-> "aws",
                         shareWithAccounts |-> o.shareWithAccounts \o res.accounts])
  ELSE IF ir.uploadType = "azure"
  THEN IF ~AzureOptionsValid(o) THEN Reject(AzureMessage)
       ELSE IF o.sourceId = NULL
       THEN Accept([type |-> "azure", subscriptionId |-> o.subscriptionId,
                    tenantId |-> o.tenantId])
       ELSE LET info == UploadInfo(o.sourceId) IN
            IF info.azure = << >> THEN Reject(SourceMessage)
            ELSE Accept([type |-> "azure",
                         subscriptionId |-> info.azure[1].subscriptionId,
                         tenantId |-> info.azure[1].tenantId])
  ELSE Accept([type |-> ir.uploadType])

\* sum of the minSize entries of customizations.filesystem
RECURSIVE TotalSize(_)
TotalSize(filesystem) ==
  IF filesystem = << >> THEN 0
  ELSE Head(filesystem) + TotalSize(Tail(filesystem))

\* the ceiling is not applied to the image types of the AWS family
SizeMessageAzureOnly(imageType, filesystem) ==
  IF filesystem = << >> \/ TotalSize(filesystem) <= FSMaxSize THEN ""
  ELSE IF imageType \in AzureImageTypes THEN AzureSizeMessage
  ELSE ""

\* the message of the size rule the request breaks, "" when it breaks none
SizeMessage(imageType, filesystem) ==
  IF filesystem = << >> \/ TotalSize(filesystem) <= FSMaxSize THEN ""
  ELSE IF imageType \in AwsImageTypes THEN AwsSizeMessage
  ELSE IF imageType \in AzureImageTypes THEN AzureSizeMessage
  ELSE ""

\* only the first image request is looked at: no upper bound on the list
LengthMessageNoMaximum(imageRequests) ==
  IF Len(imageRequests) < 1 THEN MinItemsMessage ELSE ""

\* the message of the length rule the list breaks, "" when it breaks none
LengthMessage(imageRequests) ==
  IF Len(imageRequests) < 1 THEN MinItemsMessage
  ELSE IF Len(imageRequests) > 1 THEN MaxItemsMessage
  ELSE ""

\* users are customized whatever the image type
UsersAllowedAlways(users, imageType) == TRUE

\* customizations.users goes with installer image types only
UsersAllowed(users, imageType) == ~users \/ imageType \in InstallerImageTypes

\* an optional field is a sequence of the value, or of nothing
OSTree(ref, url, contenturl, parent, rhsm) ==
  [ref |-> ref, url |-> url, contenturl |-> contenturl, parent |-> parent,
   rhsm |-> rhsm]

\* the content url is not carried over
BuildOSTreeOptionsNoContenturl(ostree) ==
  IF ostree = << >> THEN << >>
  ELSE LET o == ostree[1] IN
       <<[ref |-> IF o.ref # << >> THEN <<o.ref[1]>> ELSE << >>,
          url |-> IF o.url # << >> THEN <<o.url[1]>> ELSE << >>,
          contenturl |-> << >>,
          parent |-> IF o.parent # << >> THEN <<o.parent[1]>> ELSE << >>,
          rhsm |-> IF o.rhsm # << >> THEN <<o.rhsm[1]>> ELSE << >>]>>

\* public OSTree options -> backend OSTree options: no block for no block,
\* and in a block each field that is set, copied
BuildOSTreeOptions(ostree) ==
  IF ostree = << >> THEN << >>
  ELSE LET o == ostree[1] IN
       <<[ref |-> IF o.ref # << >> THEN <<o.ref[1]>> ELSE << >>,
          url |-> IF o.url # << >> THEN <<o.url[1]>> ELSE << >>,
          contenturl |-> IF o.contenturl # << >> THEN <<o.contenturl[1]>> ELSE << >>,
          parent |-> IF o.parent # << >> THEN <<o.parent[1]>> ELSE << >>,
          rhsm |-> IF o.rhsm # << >> THEN <<o.rhsm[1]>> ELSE << >>]>>

\* public ComposeRequest -> backend ComposeRequest, all or nothing
Translate(req) ==
  IF LengthMessage(req.imageRequests) # ""
  THEN Reject(LengthMessage(req.imageRequests))
  ELSE IF SizeMessage(req.imageRequests[1].imageType, req.filesystem) # ""
  THEN Reject(SizeMessage(req.imageRequests[1].imageType, req.filesystem))
  ELSE
    LET ir == req.imageRequests[1]
        repos == RepositoriesOf(req.distribution, ir.architecture)
        upload == BuildUploadOptions(ir)
    IN IF ir.architecture \notin ArchitecturesOf(req.distribution)
       THEN Reject(ArchitectureMessage)
       ELSE IF Len(repos) = 0 THEN Reject(ArchitectureMessage)
       ELSE IF ~upload.ok THEN upload
       ELSE IF ~UsersAllowed(req.users, ir.imageType)
       THEN Reject(UsersMessage)
       ELSE Accept([distribution |-> BackendDistribution(req.distribution),
                    customizations |->
                      [users |-> req.users, filesystem |-> req.filesystem],
                    imageRequest |->
                      [architecture |-> ir.architecture,
                       imageType |-> ir.imageType,
                       ostree |-> BuildOSTreeOptions(ir.ostree),
                       repositories |-> repos,
                       uploadOptions |-> upload.out[1]]])

(* ------------------------------------------------------------------ *)
(* Identity resolver                                                   *)
(* ------------------------------------------------------------------ *)
\* a trust header: absent, not base64, not JSON, or a decoded identity
Header(kind, org, account) == [kind |-> kind, org |-> org, account |-> account]

\* the JSON decoding error is dropped: the zero identity is checked instead
ResolveIdentityDecodeUnchecked(h) ==
  IF h.kind = "missing"
  THEN [ok |-> FALSE, msg |-> "missing x-rh-identity header", org |-> ""]
  ELSE IF h.kind = "notbase64"
  THEN [ok |-> FALSE, msg |-> "unable to b64 decode x-rh-identity header", org |-> ""]
  ELSE IF h.org = ""
  THEN [ok |-> FALSE, msg |-> "invalid or missing org_id", org |-> ""]
  ELSE [ok |-> TRUE, msg |-> "", org |-> h.org]

\* the account number is required like the organization id
ResolveIdentityAccountRequired(h) ==
  IF h.kind = "missing"
  THEN [ok |-> FALSE, msg |-> "missing x-rh-identity header", org |-> ""]
  ELSE IF h.kind = "notbase64"
  THEN [ok |-> FALSE, msg |-> "unable to b64 decode x-rh-identity header", org |-> ""]
  ELSE IF h.kind = "notjson"
  THEN [ok |-> FALSE, msg |-> "does not contain valid JSON", org |-> ""]
  ELSE IF h.org = "" \/ h.account = ""
  THEN [ok |-> FALSE, msg |-> "invalid or missing org_id", org |-> ""]
  ELSE [ok |-> TRUE, msg |-> "", org |-> h.org]

ResolveIdentity(h) ==
  IF h.kind = "missing"
  THEN [ok |-> FALSE, msg |-> "missing x-rh-identity header", org |-> ""]
  ELSE IF h.kind = "notbase64"
  THEN [ok |-> FALSE, msg |-> "unable to b64 decode x-rh-identity header", org |-> ""]
  ELSE IF h.kind = "notjson"
  THEN [ok |-> FALSE, msg |-> "does not contain valid JSON", org |-> ""]
  ELSE IF h.org = ""
  THEN [ok |-> FALSE, msg |-> "invalid or missing org_id", org |-> ""]
  ELSE [ok |-> TRUE, msg |-> "", org |-> h.org]

(* ------------------------------------------------------------------ *)
(* Allow-list policy                                                   *)
(* ------------------------------------------------------------------ *)
\* without an allow file nothing is checked
IsAllowedOpenWithoutFile(file, dir, org, distro) ==
  \/ ~file
  \/ distro \notin RestrictedIn(dir)
  \/ distro \in AllowedDistros /\ org \in AllowedOrgs(distro)

\* the organization is not looked up: a listed distribution is open to all
IsAllowedAnyOrg(file, dir, org, distro) ==
  \/ distro \notin RestrictedIn(dir)
  \/ file /\ distro \in AllowedDistros

\* the policy is not consulted
IsAllowedEveryone(file, dir, org, distro) == TRUE

\* a restricted distribution is open only to the organizations the allow file
\* lists for it; without an allow file nobody is listed
IsAllowed(file, dir, org, distro) ==
  \/ distro \notin RestrictedIn(dir)
  \/ file /\ distro \in AllowedDistros /\ org \in AllowedOrgs(distro)

(* ------------------------------------------------------------------ *)
(* Quota ledger                                                        *)
(* ------------------------------------------------------------------ *)
\* off by one: the window is taken to last one tick longer
ElapsedLate(q, org, t) == t - q.windowStart > Window(org)

\* the window of q has elapsed at wall-clock time t
Elapsed(q, org, t) == t - q.windowStart >= Window(org)

\* the row as the reservation sees it: reset once the window has elapsed
Rolled(q, org, t) ==
  IF Elapsed(q, org, t) THEN [windowStart |-> t, used |-> 0] ELSE q

\* off by one: a reservation is let through with the counter at the limit
ReserveAllowedAtLimit(q, org, t) == Rolled(q, org, t).used <= Limit(org)

ReserveAllowed(q, org, t) == Rolled(q, org, t).used < Limit(org)

\* the counter is incremented whether or not the reservation is allowed
ReserveAlwaysCounts(q, org, t) == [Rolled(q, org, t) EXCEPT !.used = @ + 1]

\* check-and-increment in one transaction; a rejection changes nothing
Reserve(q, org, t) ==
  IF ReserveAllowed(q, org, t)
  THEN [Rolled(q, org, t) EXCEPT !.used = @ + 1]
  ELSE q

\* the reservation is kept
ReleaseNothing(q) == q

\* the slot of a reservation is given back
Release(q) == [q EXCEPT !.used = IF @ > 0 THEN @ - 1 ELSE 0]

\* Record of the ledger's grants, kept beside it:
\*   succ      reservations granted in the current window (counted up to limit + 1)
\*   released  a reservation was released during the current window
\*   free      slots that were free after the last reset or release
\*   granted   reservations granted since then
EmptyLog ==
  [o \in Orgs |-> [succ |-> 0, released |-> FALSE, free |-> Limit(o), granted |-> 0]]

LogReserve(l, q, org, t) ==
  IF ~ReserveAllowed(q, org, t) THEN l
  ELSE IF Elapsed(q, org, t)
  THEN [succ |-> 1, released |-> FALSE, free |-> Limit(org), granted |-> 1]
  ELSE [l EXCEPT !.succ = IF @ <= Limit(org) THEN @ + 1 ELSE @,
                 !.granted = @ + 1]

LogRelease(l, q, org) ==
  [l EXCEPT !.released = TRUE, !.free = Limit(org) - Release(q).used, !.granted = 0]

(* ------------------------------------------------------------------ *)
(* Inputs of the pipeline                                              *)
(* ------------------------------------------------------------------ *)
NoOptions ==
  [shareWithAccounts |-> << >>, shareWithSources |-> << >>,
   sourceId |-> NULL, subscriptionId |-> NULL, tenantId |-> NULL]

AwsAccounts == [NoOptions EXCEPT !.shareWithAccounts = <<"test-account">>]
AzureSource == [NoOptions EXCEPT !.sourceId = "2"]
AzureSubscriptionOnly == [NoOptions EXCEPT !.subscriptionId = "id"]

ImageRequest(arch, imageType, uploadType, options) ==
  [architecture |-> arch, imageType |-> imageType, uploadType |-> uploadType,
   options |-> options, ostree |-> << >>]

\* the public ComposeRequest; users stands for customizations.users being
\* given, filesystem for the minSize entries of customizations.filesystem
ComposeRequest(distro, imageRequests, users) ==
  [distribution |-> distro, imageRequests |-> imageRequests, users |-> users,
   filesystem |-> << >>, imageName |-> NULL]

NoHeader == Header("none", "", "")
NoBody == ComposeRequest("", << >>, FALSE)

\* headers of the callers: the two organizations, and the four malformed ones
GoodHeaders == {Header("identity", o, "500000") : o \in Orgs}
BadHeaders ==
  {Header("missing", "", ""), Header("notbase64", "", ""),
   Header("notjson", "", ""), Header("identity", "", "500000")}

\* one image request per shape the compose tests post
ImageRequestShapes ==
  {ImageRequest("x86_64", "aws", "aws", AwsAccounts),
   ImageRequest("x86_64", "azure", "azure", AzureSource),
   ImageRequest("unsupported-arch", "aws", "aws", AwsAccounts),
   ImageRequest("x86_64", "azure", "unknown", AwsAccounts),
   ImageRequest("x86_64", "azure", "azure", AzureSubscriptionOnly)}

\* users are customized for an image type that is no installer
UsersForAmi ==
  ComposeRequest("centos-8", <<ImageRequest("x86_64", "ami", "aws", AwsAccounts)>>, TRUE)

Bodies ==
  {ComposeRequest("centos-8", <<ir>>, FALSE) : ir \in ImageRequestShapes}
    \cup {ComposeRequest("rhel-8", <<ImageRequest("x86_64", "aws", "aws", AwsAccounts)>>, FALSE)}
    \cup {UsersForAmi}

ValidAws ==
  ComposeRequest("centos-8", <<ImageRequest("x86_64", "aws", "aws", AwsAccounts)>>, FALSE)

\* a malformed header is paired with one body only: the body is never read
Inputs == (GoodHeaders \X Bodies) \cup (BadHeaders \X {ValidAws})

\* the requests that race for the quota of their organization
ConcurrentInputs == GoodHeaders \X {ValidAws}

\* Inputs of the translator: every presence combination of the Azure options
\* (with a source that resolves to Azure, and one that does not resolve), the
\* AWS sharing options, the architectures, the user customization
AzureOptionCombos ==
  {[NoOptions EXCEPT !.sourceId = s, !.subscriptionId = u, !.tenantId = t] :
     s \in {NULL, "2", "9"}, u \in {NULL, "id"}, t \in {NULL, "tenant"}}

AwsOptionCombos ==
  {[NoOptions EXCEPT !.shareWithAccounts = a, !.shareWithSources = c] :
     a \in {<< >>, <<"test-account">>}, c \in {<< >>, <<"1">>, <<"9">>}}

TranslateBodies ==
  {ComposeRequest("centos-8", <<ImageRequest(arch, "azure", "azure", o)>>, u) :
     arch \in {"x86_64", "unsupported-arch"}, o \in AzureOptionCombos, u \in BOOLEAN}
  \cup
  {ComposeRequest("centos-8", <<ImageRequest("x86_64", it, "aws", o)>>, u) :
     it \in {"aws", "ami", "image-installer"}, o \in AwsOptionCombos, u \in BOOLEAN}
  \cup
  {ComposeRequest("rhel-8", <<ImageRequest("x86_64", "edge-installer", ut, NoOptions)>>, u) :
     ut \in {"aws.s3", "unknown"}, u \in BOOLEAN}

TranslateInputs == {Header("identity", Org0, "500000")} \X TranslateBodies

\* Inputs of the customization rules: the image types of the two cloud
\* families and two others, each with the upload request the tests give it,
\* filesystems below, at and above the ceiling (3, 64 and 66 GiB), and lists of
\* zero and of two image requests
AzureSubscription ==
  [NoOptions EXCEPT !.subscriptionId = "id", !.tenantId = "tenant"]

CustomizeImageTypes ==
  {"aws", "ami", "azure", "vhd", "guest-image", "rhel-edge-installer"}

UploadFor(imageType) ==
  IF imageType \in AwsImageTypes THEN [type |-> "aws", options |-> AwsAccounts]
  ELSE IF imageType \in AzureImageTypes
  THEN [type |-> "azure", options |-> AzureSubscription]
  ELSE [type |-> "aws.s3", options |-> NoOptions]

Filesystems == {<<2, 1>>, <<2, FSMaxSize - 2>>, <<2, FSMaxSize>>}

ZeroImageRequests == ComposeRequest("centos-8", << >>, FALSE)
TwoImageRequests ==
  ComposeRequest("centos-8",
                 <<ImageRequest("x86_64", "aws", "aws", AwsAccounts),
                   ImageRequest("x86_64", "ami", "aws", AwsAccounts)>>, FALSE)

CustomizeBodies ==
  {[ComposeRequest("centos-8",
                   <<ImageRequest("x86_64", it, UploadFor(it).type, UploadFor(it).options)>>,
                   u) EXCEPT !.filesystem = fs] :
     it \in CustomizeImageTypes, u \in BOOLEAN, fs \in Filesystems}
  \cup {ZeroImageRequests, TwoImageRequests}

CustomizeInputs == {Header("identity", Org0, "500000")} \X CustomizeBodies

\* Inputs of the identity resolver: the malformed headers, and the decoded
\* identities with and without organization id and account number
IdentityHeaders ==
  {Header("missing", "", ""), Header("notbase64", "", ""), Header("notjson", "", "")}
  \cup {Header("identity", o, a) : o \in {""} \cup Orgs, a \in {"", "500000"}}

IdentityInputs == IdentityHeaders \X {ValidAws}

\* Inputs of the source resolution: AWS requests that share with a source (one
\* the collaborator knows as an AWS account, one it knows as an Azure
\* subscription, one it does not know), and Azure requests that name each of
\* these sources
SourceBodies ==
  {ComposeRequest("centos-8",
                  <<ImageRequest("x86_64", "aws", "aws",
                                 [NoOptions EXCEPT !.shareWithSources = <<c>>])>>,
                  FALSE) :
     c \in {"1", "2", "9"}}
  \cup
  {ComposeRequest("centos-8",
                  <<ImageRequest("x86_64", "azure", "azure",
                                 [NoOptions EXCEPT !.sourceId = c])>>,
                  FALSE) :
     c \in {"1", "2", "9"}}

SourceInputs == {Header("identity", Org0, "500000")} \X SourceBodies

\* answers of the backend to a submission
BackendResponses ==
  {[status |-> 201, body |-> "composeId"],
   [status |-> 201, body |-> "garbage"],
   [status |-> 200, body |-> "composeId"],
   [status |-> 200, body |-> "error10"],
   [status |-> 418, body |-> "garbage"]}

(* ------------------------------------------------------------------ *)
(* The request payload as JSON: a JSON object is a function of the     *)
(* keys it has; optional fields that are not set are left out          *)
(* ------------------------------------------------------------------ *)
EmptyJson == [k \in {} |-> NULL]

Field(j, k, default) == IF k \in DOMAIN j THEN j[k] ELSE default

MarshalOptions(o) ==
  LET keys ==
        (IF o.shareWithAccounts # << >> THEN {"share_with_accounts"} ELSE {})
        \cup (IF o.shareWithSources # << >> THEN {"share_with_sources"} ELSE {})
        \cup (IF o.sourceId # NULL THEN {"source_id"} ELSE {})
        \cup (IF o.subscriptionId # NULL THEN {"subscription_id"} ELSE {})
        \cup (IF o.tenantId # NULL THEN {"tenant_id"} ELSE {})
  IN [k \in keys |->
        CASE k = "share_with_accounts" -> o.shareWithAccounts
          [] k = "share_with_sources" -> o.shareWithSources
          [] k = "source_id" -> o.sourceId
          [] k = "subscription_id" -> o.subscriptionId
          [] k = "tenant_id" -> o.tenantId]

OSTreeKeys == {"ref", "url", "contenturl", "parent", "rhsm"}

MarshalOSTree(o) ==
  LET keys == {k \in OSTreeKeys : o[k] # << >>} IN [k \in keys |-> o[k][1]]

MarshalImageRequest(ir) ==
  LET keys == {"architecture", "image_type", "upload_request"}
              \cup (IF ir.ostree # << >> THEN {"ostree"} ELSE {})
  IN [k \in keys |->
        CASE k = "architecture" -> ir.architecture
          [] k = "image_type" -> ir.imageType
          [] k = "upload_request" ->
               [type |-> ir.uploadType, options |-> MarshalOptions(ir.options)]
          [] k = "ostree" -> MarshalOSTree(ir.ostree[1])]

MarshalCustomizations(b) ==
  LET keys == (IF b.users THEN {"users"} ELSE {})
              \cup (IF b.filesystem # << >> THEN {"filesystem"} ELSE {})
  IN [k \in keys |-> CASE k = "users" -> TRUE [] k = "filesystem" -> b.filesystem]

\* the JSON the compose record stores for a public ComposeRequest
Marshal(b) ==
  LET keys == {"distribution", "image_requests"}
              \cup (IF b.imageName # NULL THEN {"image_name"} ELSE {})
              \cup (IF b.users \/ b.filesystem # << >> THEN {"customizations"} ELSE {})
  IN [k \in keys |->
        CASE k = "distribution" -> b.distribution
          [] k = "image_requests" ->
               [i \in 1..Len(b.imageRequests) |-> MarshalImageRequest(b.imageRequests[i])]
          [] k = "image_name" -> b.imageName
          [] k = "customizations" -> MarshalCustomizations(b)]

UnmarshalOptions(j) ==
  [shareWithAccounts |-> Field(j, "share_with_accounts", << >>),
   shareWithSources |-> Field(j, "share_with_sources", << >>),
   sourceId |-> Field(j, "source_id", NULL),
   subscriptionId |-> Field(j, "subscription_id", NULL),
   tenantId |-> Field(j, "tenant_id", NULL)]

Optional(j, k) == IF k \in DOMAIN j THEN <<j[k]>> ELSE << >>

UnmarshalOSTree(j) ==
  OSTree(Optional(j, "ref"), Optional(j, "url"), Optional(j, "contenturl"),
         Optional(j, "parent"), Optional(j, "rhsm"))

UnmarshalOSTreeBlock(j) ==
  IF "ostree" \in DOMAIN j THEN <<UnmarshalOSTree(j["ostree"])>> ELSE << >>

\* the upload options are left as they were received: not decoded
UnmarshalImageRequestNoOptions(j) ==
  [architecture |-> Field(j, "architecture", ""),
   imageType |-> Field(j, "image_type", ""),
   uploadType |-> Field(Field(j, "upload_request", EmptyJson), "type", ""),
   options |-> UnmarshalOptions(EmptyJson),
   ostree |-> UnmarshalOSTreeBlock(j)]

UnmarshalImageRequest(j) ==
  [architecture |-> Field(j, "architecture", ""),
   imageType |-> Field(j, "image_type", ""),
   uploadType |-> Field(Field(j, "upload_request", EmptyJson), "type", ""),
   options |-> UnmarshalOptions(Field(Field(j, "upload_request", EmptyJson),
                                      "options", EmptyJson)),
   ostree |-> UnmarshalOSTreeBlock(j)]

\* the public ComposeRequest parsed back from the stored JSON
Unmarshal(j) ==
  LET irs == Field(j, "image_requests", << >>)
      c == Field(j, "customizations", EmptyJson)
  IN [distribution |-> Field(j, "distribution", ""),
      imageRequests |-> [i \in 1..Len(irs) |-> UnmarshalImageRequest(irs[i])],
      users |-> "users" \in DOMAIN c,
      filesystem |-> Field(c, "filesystem", << >>),
      imageName |-> Field(j, "image_name", NULL)]

(* ------------------------------------------------------------------ *)
(* Durable store: compose records and clone records                    *)
(* ------------------------------------------------------------------ *)
Reverse(s) == [i \in 1..Len(s) |-> s[Len(s) + 1 - i]]

DbInsertCompose(cs, id, org, request) ==
  Append(cs, [id |-> id, org |-> org, request |-> request])

\* the organization is not part of the lookup
DbGetComposeAnyOrg(cs, id, org) ==
  LET Has(c) == c.id = id IN SelectSeq(cs, Has)

\* the record of (id, org): a sequence of one record, or none
DbGetCompose(cs, id, org) ==
  LET Has(c) == c.id = id /\ c.org = org IN SelectSeq(cs, Has)

\* the records come in the order they were created
DbGetComposesOldestFirst(cs, org) ==
  LET Mine(c) == c.org = org IN SelectSeq(cs, Mine)

\* the records of an organization, ordered by creation time, newest first
DbGetComposes(cs, org) ==
  LET Mine(c) == c.org = org IN Reverse(SelectSeq(cs, Mine))

DbInsertClone(cl, id, composeId, request) ==
  Append(cl, [id |-> id, composeId |-> composeId, request |-> request])

\* the clones of every compose are listed
DbGetClonesForAnyCompose(cl, cs, composeId, org) == cl

\* the clone records of a parent compose of the organization
DbGetClonesForCompose(cl, cs, composeId, org) ==
  LET Child(c) == c.composeId = composeId /\ DbGetCompose(cs, composeId, org) # << >>
  IN SelectSeq(cl, Child)

(* ------------------------------------------------------------------ *)
(* Status translator                                                   *)
(* ------------------------------------------------------------------ *)
\* the backend's failure of TestComposeStatusError: 9 -> 5 -> 23
ManifestError == [id |-> 23, reason |-> "Marking errors: package", details |-> << >>]
OsbuildError == [id |-> 5, reason |-> "dependency failed", details |-> <<ManifestError>>]
DependencyError == [id |-> 9, reason |-> "depenceny failed", details |-> <<OsbuildError>>]

\* the backend's error is passed on as it is
ParseComposeStatusErrorTopLevel(e) ==
  [id |-> e.id, reason |-> e.reason, details |-> e.details]

\* the public error of a backend error: the error its details lead down to
RECURSIVE ParseComposeStatusError(_)
ParseComposeStatusError(e) ==
  IF e.details = << >>
  THEN [id |-> e.id, reason |-> e.reason, details |-> << >>]
  ELSE ParseComposeStatusError(e.details[1])

\* backend image status -> public image status
TranslateImageStatus(bs) ==
  [status |-> bs.status,
   error |-> IF bs.error = << >> THEN << >>
             ELSE <<ParseComposeStatusError(bs.error[1])>>]

(* ------------------------------------------------------------------ *)
(* Inputs of the read side                                             *)
(* ------------------------------------------------------------------ *)
\* Inputs of the read side: the callers, the payloads the store is given
\* (requests as the compose handler stores them, and the raw documents the
\* tests insert), the backend's image statuses, the clone requests
ReadHeaders == GoodHeaders \cup {Header("missing", "", "")}

AzureViaSource ==
  ComposeRequest("centos-8", <<ImageRequest("x86_64", "azure", "azure", AzureSource)>>, FALSE)

NamedRhel9 == [ComposeRequest("rhel-9", << >>, FALSE) EXCEPT !.imageName = "myimage"]

StoredBodies == {AzureViaSource, NamedRhel9}

AwsImageOnly == [image_requests |-> <<[image_type |-> "aws"]>>]

StoredRequests == {Marshal(b) : b \in StoredBodies} \cup {EmptyJson, AwsImageOnly}

BackendStatuses ==
  {[status |-> "building", error |-> << >>],
   [status |-> "failure", error |-> <<DependencyError>>],
   [status |-> "failure", error |-> <<ManifestError>>]}

CloneRequest(accounts, sources) ==
  [region |-> "us-east-2", shareWithAccounts |-> accounts, shareWithSources |-> sources]

CloneRequests ==
  {CloneRequest(<< >>, <<"1">>), CloneRequest(<< >>, << >>), CloneRequest(<< >>, <<"9">>)}

\* clone requests that share with sources, alone and beside an account
SourceCloneRequests ==
  {CloneRequest(<< >>, <<"1">>), CloneRequest(<<"test-account">>, <<"1">>),
   CloneRequest(<< >>, <<"2">>), CloneRequest(<< >>, <<"9">>)}

CloneResponses ==
  {[status |-> 201, body |-> "cloneId"], [status |-> 418, body |-> "garbage"]}

(* ------------------------------------------------------------------ *)
(* State                                                               *)
(* ------------------------------------------------------------------ *)
VARIABLES
  allowFile,      \* ServerConfig.AllowFile is set
  distsDir,       \* directory the distribution registry was loaded from
  now,            \* wall clock
  quota,          \* quota ledger: org -> [windowStart, used]
  req,            \* the requests being served: request -> its pipeline state
  composes,       \* compose records, in insertion order
  backendCreated, \* compose ids the backend answered "created" with
  ledgerLog,      \* what the ledger granted: org -> [succ, released, free, granted]
  clones,         \* clone records, in insertion order
  lastRead,       \* the answer to the last read or clone request
  accessToken     \* bearer token the backend client holds ("" before it has one)

vars ==
  <<allowFile, distsDir, now, quota, req, composes, backendCreated, ledgerLog,
    clones, lastRead, accessToken>>

\* no read or clone request has been answered yet
NoRead == [op |-> "none"]

IdleRequest ==
  [pc |-> "Idle", header |-> NoHeader, body |-> NoBody, org |-> "",
   reservedIn |-> -1, startBefore |-> -1, usedBefore |-> -1, out |-> << >>,
   submits |-> 0,
   bearer |-> "", resp |-> << >>, status |-> 0, kind |-> "", msg |-> "", id |-> 0]

Terminal == {"Persisted", "Failed"}

Fail(rq, status, kind, msg) ==
  [rq EXCEPT !.pc = "Failed", !.status = status, !.kind = kind, !.msg = msg]

\* the configurations the servers are started with: startServer (no allow file,
\* ../../distributions) and startServerWithAllowFile (testdata registry, with
\* and without the allow file)
Configs ==
  {[allowFile |-> FALSE, distsDir |-> "distributions"],
   [allowFile |-> FALSE, distsDir |-> "testdata"],
   [allowFile |-> TRUE, distsDir |-> "testdata"]}

Init ==
  /\ \E c \in Configs : allowFile = c.allowFile /\ distsDir = c.distsDir
  /\ now = 0
  /\ quota = [o \in Orgs |-> [windowStart |-> 0, used |-> 0]]
  /\ req = [r \in {"r1"} |-> IdleRequest]
  /\ composes = << >>
  /\ backendCreated = {}
  /\ ledgerLog = EmptyLog
  /\ clones = << >>
  /\ lastRead = NoRead
  /\ accessToken = ""

(* ------------------------------------------------------------------ *)
(* Compose orchestrator                                                *)
(* ------------------------------------------------------------------ *)
Receive(r, h, b) ==
  /\ req[r].pc = "Idle"
  /\ req' = [req EXCEPT ![r] = [IdleRequest EXCEPT !.pc = "Received",
                                                   !.header = h, !.body = b]]
  /\ UNCHANGED <<accessToken, clones, lastRead, allowFile, distsDir, now, quota, composes, backendCreated, ledgerLog>>

\* the allow list is not consulted: the request goes on to the reservation
IdentifySkipsAllowList(r) ==
  /\ req[r].pc = "Received"
  /\ LET res == ResolveIdentity(req[r].header) IN
     req' = [req EXCEPT ![r] =
               IF res.ok
               THEN [@ EXCEPT !.pc = "AllowListChecked", !.org = res.org]
               ELSE Fail(@, 400, "IdentityError", res.msg)]
  /\ UNCHANGED <<accessToken, clones, lastRead, allowFile, distsDir, now, quota, composes, backendCreated, ledgerLog>>

Identify(r) ==
  /\ req[r].pc = "Received"
  /\ LET res == ResolveIdentity(req[r].header) IN
     req' = [req EXCEPT ![r] =
               IF res.ok
               THEN [@ EXCEPT !.pc = "IdentityResolved", !.org = res.org]
               ELSE Fail(@, 400, "IdentityError", res.msg)]
  /\ UNCHANGED <<accessToken, clones, lastRead, allowFile, distsDir, now, quota, composes, backendCreated, ledgerLog>>

CheckAllowList(r) ==
  /\ req[r].pc = "IdentityResolved"
  /\ req' = [req EXCEPT ![r] =
               IF IsAllowed(allowFile, distsDir, @.org, @.body.distribution)
               THEN [@ EXCEPT !.pc = "AllowListChecked"]
               ELSE Fail(@, 403, "PolicyError", "organization not allowed")]
  /\ UNCHANGED <<accessToken, clones, lastRead, allowFile, distsDir, now, quota, composes, backendCreated, ledgerLog>>

\* the ledger keeps one window for all organizations: a reservation is
\* counted in every row, and refused once any row is full
ReserveQuotaOneRow(r) ==
  /\ req[r].pc = "AllowListChecked"
  /\ LET org == req[r].org
         allowed == \A o \in Orgs : ReserveAllowed(quota[o], o, now)
     IN
     /\ quota' = IF allowed THEN [o \in Orgs |-> Reserve(quota[o], o, now)] ELSE quota
     /\ ledgerLog' = ledgerLog
     /\ req' = [req EXCEPT ![r] =
                  IF allowed
                  THEN [@ EXCEPT !.pc = "QuotaReserved",
                                 !.reservedIn = Rolled(quota[org], org, now).windowStart,
                                 !.startBefore = quota[org].windowStart,
                                 !.usedBefore = quota[org].used]
                  ELSE Fail(@, 429, "QuotaError", "Quota exceeded")]
  /\ UNCHANGED <<accessToken, clones, lastRead, allowFile, distsDir, now, composes, backendCreated>>

ReserveQuota(r) ==
  /\ req[r].pc = "AllowListChecked"
  /\ LET org == req[r].org IN
     /\ quota' = [quota EXCEPT ![org] = Reserve(@, org, now)]
     /\ ledgerLog' = [ledgerLog EXCEPT ![org] = LogReserve(@, quota[org], org, now)]
     /\ req' = [req EXCEPT ![r] =
                  IF ReserveAllowed(quota[org], org, now)
                  THEN [@ EXCEPT !.pc = "QuotaReserved",
                                 !.reservedIn = Rolled(quota[org], org, now).windowStart,
                                 !.startBefore = quota[org].windowStart,
                                 !.usedBefore = quota[org].used]
                  ELSE Fail(@, 429, "QuotaError", "Quota exceeded")]
  /\ UNCHANGED <<accessToken, clones, lastRead, allowFile, distsDir, now, composes, backendCreated>>

\* a request that fails translation gives its reservation back
TranslateRequestReleases(r) ==
  /\ req[r].pc = "QuotaReserved"
  /\ LET res == Translate(req[r].body) IN
     /\ req' = [req EXCEPT ![r] =
                  IF res.ok
                  THEN [@ EXCEPT !.pc = "Translated", !.out = res.out]
                  ELSE Fail(@, res.status, "ValidationError", res.msg)]
     /\ quota' = IF res.ok THEN quota
                 ELSE [quota EXCEPT ![req[r].org] = Release(@)]
  /\ UNCHANGED <<accessToken, clones, lastRead, allowFile, distsDir, now, composes, backendCreated, ledgerLog>>

TranslateRequest(r) ==
  /\ req[r].pc = "QuotaReserved"
  /\ LET res == Translate(req[r].body) IN
     req' = [req EXCEPT ![r] =
               IF res.ok
               THEN [@ EXCEPT !.pc = "Translated", !.out = res.out]
               ELSE Fail(@, res.status, "ValidationError", res.msg)]
  /\ UNCHANGED <<accessToken, clones, lastRead, allowFile, distsDir, now, quota, composes, backendCreated, ledgerLog>>

\* the token the token endpoint hands out
AccessToken == "accesstoken"

\* the backend request is posted, bearing the token the client holds
Submit(r) ==
  /\ req[r].pc = "Translated"
  /\ req' = [req EXCEPT ![r] = [@ EXCEPT !.pc = "Submitted", !.submits = @ + 1,
                                           !.bearer = accessToken]]
  /\ UNCHANGED <<accessToken, clones, lastRead, allowFile, distsDir, now, quota, composes, backendCreated, ledgerLog>>

\* the client posts the request again whatever token the call bore
UnauthorizedAnyBearer(r) ==
  /\ req[r].pc = "Submitted"
  /\ accessToken' = AccessToken
  /\ req' = [req EXCEPT ![r] = [@ EXCEPT !.submits = @ + 1, !.bearer = AccessToken]]
  /\ UNCHANGED <<clones, lastRead, allowFile, distsDir, now, quota, composes, backendCreated, ledgerLog>>

\* the backend answers 401 to a call that bears no token: the client fetches
\* the token from the token endpoint and posts the request again
Unauthorized(r) ==
  /\ req[r].pc = "Submitted"
  /\ req[r].bearer = ""
  /\ accessToken' = AccessToken
  /\ req' = [req EXCEPT ![r] = [@ EXCEPT !.submits = @ + 1, !.bearer = AccessToken]]
  /\ UNCHANGED <<clones, lastRead, allowFile, distsDir, now, quota, composes, backendCreated, ledgerLog>>

\* any 2xx answer carrying an id is taken for "created"
CreatedAny2xx(resp) == resp.status \in {200, 201} /\ resp.body = "composeId"

\* the gateway's reading of the backend's answer to a submission
Created(resp) == resp.status = 201 /\ resp.body = "composeId"

\* a backend error is a server error whatever it says
ResponseStatusAlwaysServerError(resp) == IF Created(resp) THEN 201 ELSE 500

\* the status the caller gets for the backend's answer
ResponseStatus(resp) ==
  IF Created(resp) THEN 201
  ELSE IF resp.status # 201 /\ resp.body = "error10" THEN 400
  ELSE 500

ResponseMessage(resp) ==
  IF Created(resp) THEN ""
  ELSE IF resp.status = 201 THEN "Internal Server Error"
  ELSE IF resp.body = "error10" THEN "Error resolving OSTree repo"
  ELSE "Failed posting compose request to osbuild-composer"

\* the backend answers a call that bears the token; on "created" with a
\* compose id the record is written, on anything else the request fails and
\* the reservation is given back
BackendRespond(r, resp) ==
  /\ req[r].pc = "Submitted"
  /\ req[r].bearer = AccessToken
  /\ LET id == Cardinality(backendCreated) + 1
         issued == resp.status = 201 /\ resp.body = "composeId"
     IN
     /\ issued => id <= MaxComposes
     /\ backendCreated' = IF issued THEN backendCreated \cup {id} ELSE backendCreated
     /\ IF Created(resp)
        THEN /\ composes' = DbInsertCompose(composes, id, req[r].org,
                                         Marshal(req[r].body))
             /\ req' = [req EXCEPT ![r] =
                          [@ EXCEPT !.pc = "Persisted", !.status = 201, !.id = id,
                                    !.resp = <<resp>>]]
             /\ quota' = quota
             /\ ledgerLog' = ledgerLog
        ELSE /\ composes' = composes
             /\ req' = [req EXCEPT ![r] =
                          [Fail(@, ResponseStatus(resp), "BackendError",
                                ResponseMessage(resp)) EXCEPT !.resp = <<resp>>]]
             /\ quota' = [quota EXCEPT ![req[r].org] = Release(@)]
             /\ ledgerLog' = [ledgerLog EXCEPT ![req[r].org] =
                                LogRelease(@, quota[req[r].org], req[r].org)]
  /\ UNCHANGED <<accessToken, clones, lastRead, allowFile, distsDir, now>>

\* the call is never cut off: the handler waits for the backend
BackendTimeoutWaits(r) ==
  /\ req[r].pc = "Submitted"
  /\ UNCHANGED vars

\* the backend never answers: the call is cut off
BackendTimeout(r) ==
  /\ req[r].pc = "Submitted"
  /\ req' = [req EXCEPT ![r] = Fail(@, 503, "BackendError", "backend unavailable")]
  /\ quota' = [quota EXCEPT ![req[r].org] = Release(@)]
  /\ ledgerLog' = [ledgerLog EXCEPT ![req[r].org] =
                     LogRelease(@, quota[req[r].org], req[r].org)]
  /\ UNCHANGED <<accessToken, clones, lastRead, allowFile, distsDir, now, composes, backendCreated>>

\* the response is written; the serving unit is free for the next request
Complete(r) ==
  /\ req[r].pc \in Terminal
  /\ req' = [req EXCEPT ![r] = IdleRequest]
  /\ UNCHANGED <<accessToken, clones, lastRead, allowFile, distsDir, now, quota, composes, backendCreated, ledgerLog>>

Tick ==
  /\ now < MaxTime
  /\ now' = now + 1
  /\ UNCHANGED <<accessToken, clones, lastRead, allowFile, distsDir, quota, req, composes, backendCreated, ledgerLog>>

Next ==
  \/ \E r \in DOMAIN req, in \in Inputs : Receive(r, in[1], in[2])
  \/ \E r \in DOMAIN req : Identify(r)
  \/ \E r \in DOMAIN req : CheckAllowList(r)
  \/ \E r \in DOMAIN req : ReserveQuota(r)
  \/ \E r \in DOMAIN req : TranslateRequest(r)
  \/ \E r \in DOMAIN req : Submit(r)
  \/ \E r \in DOMAIN req : Unauthorized(r)
  \/ \E r \in DOMAIN req, resp \in BackendResponses : BackendRespond(r, resp)
  \/ \E r \in DOMAIN req : BackendTimeout(r)
  \/ \E r \in DOMAIN req : Complete(r)
  \/ Tick

Spec == Init /\ [][Next]_vars

(* ------------------------------------------------------------------ *)
(* Read side and clones                                                *)
(* ------------------------------------------------------------------ *)
\* the answer to a read or clone request: who asked for what (op, org, id,
\* input), what the backend said or was sent (backend: a sequence of it, empty
\* when the backend was not called), and the response
Answered(op, org, id, input, backend, status, msg, body) ==
  [op |-> op, org |-> org, id |-> id, input |-> input, backend |-> backend,
   status |-> status, msg |-> msg, body |-> body]

Refused(op, id, msg) == Answered(op, "", id, NULL, << >>, 400, msg, NULL)

NotFound(op, org, id) ==
  Answered(op, org, id, NULL, << >>, 404, "Compose not found", NULL)

\* a compose record is written to the store
SeedCompose(org, request) ==
  /\ Len(composes) < MaxStored
  /\ composes' = DbInsertCompose(composes, Len(composes) + 1, org, request)
  /\ UNCHANGED <<accessToken, allowFile, distsDir, now, quota, req, backendCreated,
                 ledgerLog, clones, lastRead>>

\* GET /composes/{id}
GetComposeStatus(h, id, bs) ==
  /\ lastRead = NoRead
  /\ LET ident == ResolveIdentity(h)
         found == DbGetCompose(composes, id, ident.org)
     IN /\ lastRead' =
             IF ~ident.ok THEN Refused("status", id, ident.msg)
             ELSE IF found = << >> THEN NotFound("status", ident.org, id)
             ELSE Answered("status", ident.org, id, NULL, <<bs>>, 200, "",
                           [imageStatus |-> TranslateImageStatus(bs),
                            request |-> Unmarshal(found[1].request)])
        /\ accessToken' = IF ident.ok /\ found # << >> THEN AccessToken
                          ELSE accessToken
  /\ UNCHANGED <<allowFile, distsDir, now, quota, req, composes, backendCreated,
                 ledgerLog, clones>>

\* GET /composes/{id}/metadata
GetComposeMetadata(h, id) ==
  /\ lastRead = NoRead
  /\ LET ident == ResolveIdentity(h)
         found == DbGetCompose(composes, id, ident.org)
     IN /\ lastRead' =
             IF ~ident.ok THEN Refused("metadata", id, ident.msg)
             ELSE IF found = << >> THEN NotFound("metadata", ident.org, id)
             ELSE Answered("metadata", ident.org, id, NULL, <<"packages">>, 200, "",
                           [packages |-> "packages"])
        /\ accessToken' = IF ident.ok /\ found # << >> THEN AccessToken
                          ELSE accessToken
  /\ UNCHANGED <<allowFile, distsDir, now, quota, req, composes, backendCreated,
                 ledgerLog, clones>>

\* GET /composes
GetComposes(h) ==
  /\ lastRead = NoRead
  /\ LET ident == ResolveIdentity(h)
         list == DbGetComposes(composes, ident.org)
     IN lastRead' =
          IF ~ident.ok THEN Refused("list", 0, ident.msg)
          ELSE Answered("list", ident.org, 0, NULL, << >>, 200, "",
                        [data |-> [i \in 1..Len(list) |->
                                     [id |-> list[i].id,
                                      request |-> Unmarshal(list[i].request)]],
                         count |-> Len(list)])
  /\ UNCHANGED <<accessToken, allowFile, distsDir, now, quota, req, composes, backendCreated,
                 ledgerLog, clones>>

\* POST /composes/{id}/clone; backend holds the calls made to the backend: a
\* call that bears no token is answered 401 and made again with the token
CloneCompose(h, id, creq, resp) ==
  /\ lastRead = NoRead
  /\ LET ident == ResolveIdentity(h)
         found == DbGetCompose(composes, id, ident.org)
         res == ResolveAwsSources(creq.shareWithSources)
         sent == [region |-> creq.region,
                  shareWithAccounts |-> creq.shareWithAccounts \o res.accounts]
         calls == IF accessToken = "" THEN <<sent, sent>> ELSE <<sent>>
         cloneId == Len(clones) + 1
     IN IF ~ident.ok
        THEN /\ lastRead' = Refused("clone", id, ident.msg)
             /\ clones' = clones
             /\ accessToken' = accessToken
        ELSE IF found = << >>
        THEN /\ lastRead' = NotFound("clone", ident.org, id)
             /\ clones' = clones
             /\ accessToken' = accessToken
        ELSE IF ~res.ok
        THEN /\ lastRead' = Answered("clone", ident.org, id, creq, << >>, 400,
                                     SourceMessage, NULL)
             /\ clones' = clones
             /\ accessToken' = accessToken
        ELSE IF resp.status = 201 /\ resp.body = "cloneId"
        THEN /\ Len(clones) < MaxClones
             /\ clones' = DbInsertClone(clones, cloneId, id, creq)
             /\ lastRead' = Answered("clone", ident.org, id, creq, calls, 201, "",
                                     [id |-> cloneId])
             /\ accessToken' = AccessToken
        ELSE /\ lastRead' = Answered("clone", ident.org, id, creq, calls, 500,
                                     "Failed posting clone request to osbuild-composer",
                                     NULL)
             /\ clones' = clones
             /\ accessToken' = AccessToken
  /\ UNCHANGED <<allowFile, distsDir, now, quota, req, composes, backendCreated,
                 ledgerLog>>

\* GET /composes/{id}/clones
GetComposeClones(h, id) ==
  /\ lastRead = NoRead
  /\ LET ident == ResolveIdentity(h)
         list == DbGetClonesForCompose(clones, composes, id, ident.org)
     IN lastRead' =
          IF ~ident.ok THEN Refused("clones", id, ident.msg)
          ELSE Answered("clones", ident.org, id, NULL, << >>, 200, "",
                        [data |-> [i \in 1..Len(list) |->
                                     [id |-> list[i].id, request |-> list[i].request]]])
  /\ UNCHANGED <<accessToken, allowFile, distsDir, now, quota, req, composes, backendCreated,
                 ledgerLog, clones>>

\* the response is written; the serving unit is free for the next request
Answer ==
  /\ lastRead # NoRead
  /\ lastRead' = NoRead
  /\ UNCHANGED <<accessToken, allowFile, distsDir, now, quota, req, composes, backendCreated,
                 ledgerLog, clones>>

InitRead ==
  /\ allowFile = FALSE
  /\ distsDir = "distributions"
  /\ now = 0
  /\ quota = [o \in Orgs |-> [windowStart |-> 0, used |-> 0]]
  /\ req = [r \in {"r1"} |-> IdleRequest]
  /\ composes = << >>
  /\ backendCreated = {}
  /\ ledgerLog = EmptyLog
  /\ clones = << >>
  /\ lastRead = NoRead
  /\ accessToken = ""

NextRead ==
  \/ \E o \in Orgs, j \in StoredRequests : SeedCompose(o, j)
  \/ \E h \in ReadHeaders, id \in 1..MaxStored, bs \in BackendStatuses :
       GetComposeStatus(h, id, bs)
  \/ \E h \in ReadHeaders, id \in 1..MaxStored : GetComposeMetadata(h, id)
  \/ \E h \in ReadHeaders : GetComposes(h)
  \/ \E h \in ReadHeaders, id \in 1..MaxStored, creq \in CloneRequests,
          resp \in CloneResponses : CloneCompose(h, id, creq, resp)
  \/ \E h \in ReadHeaders, id \in 1..MaxStored : GetComposeClones(h, id)
  \/ Answer

SpecRead == InitRead /\ [][NextRead]_vars

(* ------------------------------------------------------------------ *)
(* Several requests served at once (one handler per inbound request,  *)
(* possibly on different gateway instances sharing the ledger)         *)
(* ------------------------------------------------------------------ *)
InitConcurrent ==
  /\ allowFile = FALSE
  /\ distsDir = "distributions"
  /\ now = 0
  /\ quota = [o \in Orgs |-> [windowStart |-> 0, used |-> 0]]
  /\ req = [r \in {"r1", "r2"} |-> IdleRequest]
  /\ composes = << >>
  /\ backendCreated = {}
  /\ ledgerLog = EmptyLog
  /\ clones = << >>
  /\ lastRead = NoRead
  /\ accessToken = ""

NextConcurrent ==
  \/ \E r \in DOMAIN req, in \in ConcurrentInputs : Receive(r, in[1], in[2])
  \/ \E r \in DOMAIN req : Identify(r)
  \/ \E r \in DOMAIN req : CheckAllowList(r)
  \/ \E r \in DOMAIN req : ReserveQuota(r)
  \/ \E r \in DOMAIN req : TranslateRequest(r)
  \/ \E r \in DOMAIN req : Submit(r)
  \/ \E r \in DOMAIN req : Unauthorized(r)
  \/ \E r \in DOMAIN req, resp \in BackendResponses : BackendRespond(r, resp)
  \/ \E r \in DOMAIN req : BackendTimeout(r)
  \/ \E r \in DOMAIN req : Complete(r)
  \/ Tick

SpecConcurrent == InitConcurrent /\ [][NextConcurrent]_vars


(* ------------------------------------------------------------------ *)
(* The translator over all its inputs, one request at a time           *)
(* ------------------------------------------------------------------ *)
InitTranslate ==
  /\ allowFile = FALSE
  /\ distsDir = "distributions"
  /\ now = 0
  /\ quota = [o \in Orgs |-> [windowStart |-> 0, used |-> 0]]
  /\ req = [r \in {"r1"} |-> IdleRequest]
  /\ composes = << >>
  /\ backendCreated = {}
  /\ ledgerLog = EmptyLog
  /\ clones = << >>
  /\ lastRead = NoRead
  /\ accessToken = ""

NextTranslate ==
  \/ \E r \in DOMAIN req, in \in TranslateInputs : Receive(r, in[1], in[2])
  \/ \E r \in DOMAIN req : Identify(r)
  \/ \E r \in DOMAIN req : CheckAllowList(r)
  \/ \E r \in DOMAIN req : ReserveQuota(r)
  \/ \E r \in DOMAIN req : TranslateRequest(r)
  \/ \E r \in DOMAIN req : Submit(r)
  \/ \E r \in DOMAIN req : Unauthorized(r)
  \/ \E r \in DOMAIN req, resp \in BackendResponses : BackendRespond(r, resp)
  \/ \E r \in DOMAIN req : BackendTimeout(r)
  \/ \E r \in DOMAIN req : Complete(r)

SpecTranslate == InitTranslate /\ [][NextTranslate]_vars


(* ------------------------------------------------------------------ *)
(* The customization and length rules over their inputs                *)
(* ------------------------------------------------------------------ *)
InitCustomize ==
  /\ allowFile = FALSE
  /\ distsDir = "distributions"
  /\ now = 0
  /\ quota = [o \in Orgs |-> [windowStart |-> 0, used |-> 0]]
  /\ req = [r \in {"r1"} |-> IdleRequest]
  /\ composes = << >>
  /\ backendCreated = {}
  /\ ledgerLog = EmptyLog
  /\ clones = << >>
  /\ lastRead = NoRead
  /\ accessToken = ""

NextCustomize ==
  \/ \E r \in DOMAIN req, in \in CustomizeInputs : Receive(r, in[1], in[2])
  \/ \E r \in DOMAIN req : Identify(r)
  \/ \E r \in DOMAIN req : CheckAllowList(r)
  \/ \E r \in DOMAIN req : ReserveQuota(r)
  \/ \E r \in DOMAIN req : TranslateRequest(r)
  \/ \E r \in DOMAIN req : Submit(r)
  \/ \E r \in DOMAIN req : Unauthorized(r)
  \/ \E r \in DOMAIN req, resp \in BackendResponses : BackendRespond(r, resp)
  \/ \E r \in DOMAIN req : BackendTimeout(r)
  \/ \E r \in DOMAIN req : Complete(r)

SpecCustomize == InitCustomize /\ [][NextCustomize]_vars

(* ------------------------------------------------------------------ *)
(* The identity resolver over its inputs                               *)
(* ------------------------------------------------------------------ *)
InitIdentity ==
  /\ allowFile = FALSE
  /\ distsDir = "distributions"
  /\ now = 0
  /\ quota = [o \in Orgs |-> [windowStart |-> 0, used |-> 0]]
  /\ req = [r \in {"r1"} |-> IdleRequest]
  /\ composes = << >>
  /\ backendCreated = {}
  /\ ledgerLog = EmptyLog
  /\ clones = << >>
  /\ lastRead = NoRead
  /\ accessToken = ""

NextIdentity ==
  \/ \E r \in DOMAIN req, in \in IdentityInputs : Receive(r, in[1], in[2])
  \/ \E r \in DOMAIN req : Identify(r)
  \/ \E r \in DOMAIN req : CheckAllowList(r)
  \/ \E r \in DOMAIN req : ReserveQuota(r)
  \/ \E r \in DOMAIN req : TranslateRequest(r)
  \/ \E r \in DOMAIN req : Submit(r)
  \/ \E r \in DOMAIN req : Unauthorized(r)
  \/ \E r \in DOMAIN req, resp \in BackendResponses : BackendRespond(r, resp)
  \/ \E r \in DOMAIN req : BackendTimeout(r)
  \/ \E r \in DOMAIN req : Complete(r)
  \/ Tick

SpecIdentity == InitIdentity /\ [][NextIdentity]_vars

(* ------------------------------------------------------------------ *)
(* Composes and clones that name sources                               *)
(* ------------------------------------------------------------------ *)
InitSources ==
  /\ allowFile = FALSE
  /\ distsDir = "distributions"
  /\ now = 0
  /\ quota = [o \in Orgs |-> [windowStart |-> 0, used |-> 0]]
  /\ req = [r \in {"r1"} |-> IdleRequest]
  /\ composes = << >>
  /\ backendCreated = {}
  /\ ledgerLog = EmptyLog
  /\ clones = << >>
  /\ lastRead = NoRead
  /\ accessToken = ""

NextSources ==
  \/ \E r \in DOMAIN req, in \in SourceInputs : Receive(r, in[1], in[2])
  \/ \E r \in DOMAIN req : Identify(r)
  \/ \E r \in DOMAIN req : CheckAllowList(r)
  \/ \E r \in DOMAIN req : ReserveQuota(r)
  \/ \E r \in DOMAIN req : TranslateRequest(r)
  \/ \E r \in DOMAIN req : Submit(r)
  \/ \E r \in DOMAIN req : Unauthorized(r)
  \/ \E r \in DOMAIN req, resp \in BackendResponses : BackendRespond(r, resp)
  \/ \E r \in DOMAIN req : BackendTimeout(r)
  \/ \E r \in DOMAIN req : Complete(r)
  \/ \E h \in GoodHeaders, id \in 1..MaxComposes, creq \in SourceCloneRequests,
          resp \in CloneResponses : CloneCompose(h, id, creq, resp)
  \/ Answer

SpecSources == InitSources /\ [][NextSources]_vars

(* ------------------------------------------------------------------ *)
(* Handlers that run to their end: every handler that can take its     *)
(* next step takes it, and a backend call that stays open is cut off   *)
(* by the client's timeout; the backend itself owes no answer. The     *)
(* requests are served within one quota window                         *)
(* ------------------------------------------------------------------ *)
LiveRequests == {"r1", "r2"}

\* a request that passes, one that fails in translation, one without identity
LiveInputs ==
  ({Header("identity", Org0, "500000")} \X
     {ValidAws,
      ComposeRequest("centos-8",
                     <<ImageRequest("unsupported-arch", "aws", "aws", AwsAccounts)>>,
                     FALSE)})
    \cup ({Header("missing", "", "")} \X {ValidAws})

InitLive ==
  /\ \E c \in Configs : allowFile = c.allowFile /\ distsDir = c.distsDir
  /\ now = 0
  /\ quota = [o \in Orgs |-> [windowStart |-> 0, used |-> 0]]
  /\ req = [r \in LiveRequests |-> IdleRequest]
  /\ composes = << >>
  /\ backendCreated = {}
  /\ ledgerLog = EmptyLog
  /\ clones = << >>
  /\ lastRead = NoRead
  /\ accessToken = ""

NextLive ==
  \/ \E r \in LiveRequests, in \in LiveInputs : Receive(r, in[1], in[2])
  \/ \E r \in LiveRequests : Identify(r)
  \/ \E r \in LiveRequests : CheckAllowList(r)
  \/ \E r \in LiveRequests : ReserveQuota(r)
  \/ \E r \in LiveRequests : TranslateRequest(r)
  \/ \E r \in LiveRequests : Submit(r)
  \/ \E r \in LiveRequests : Unauthorized(r)
  \/ \E r \in LiveRequests, resp \in BackendResponses : BackendRespond(r, resp)
  \/ \E r \in LiveRequests : BackendTimeout(r)
  \/ \E r \in LiveRequests : Complete(r)

HandlerRuns ==
  \A r \in LiveRequests :
    /\ WF_vars(Identify(r))
    /\ WF_vars(CheckAllowList(r))
    /\ WF_vars(ReserveQuota(r))
    /\ WF_vars(TranslateRequest(r))
    /\ WF_vars(Submit(r))
    /\ WF_vars(BackendTimeout(r))

SpecLive == InitLive /\ [][NextLive]_vars /\ HandlerRuns

(* ------------------------------------------------------------------ *)
(* The OSTree options over their presence combinations                 *)
(* ------------------------------------------------------------------ *)
\* no block, and every block in which each of ref, url, contenturl and parent
\* is set or not and rhsm is true, false or not set
OSTreeBlocks ==
  {<< >>} \cup
  {<<OSTree(r, u, c, p, h)>> :
     r \in {<< >>, <<"test/edge/ref">>},
     u \in {<< >>, <<"https://ostree.srv/">>},
     c \in {<< >>, <<"https://ostree.srv/content">>},
     p \in {<< >>, <<"test/edge/ref2">>},
     h \in {<< >>, <<TRUE>>, <<FALSE>>}}

OstreeBodies ==
  {ComposeRequest("centos-8",
                  <<[ImageRequest("x86_64", "edge-commit", "aws.s3", NoOptions)
                       EXCEPT !.ostree = b]>>, FALSE) : b \in OSTreeBlocks}

OstreeInputs == {Header("identity", Org0, "500000")} \X OstreeBodies

\* the backend's answers to a commit it does not build: the OSTree repository
\* that does not resolve, and the other failures
BackendErrors == {resp \in BackendResponses : ~Created(resp)}

InitOstree ==
  /\ allowFile = FALSE
  /\ distsDir = "distributions"
  /\ now = 0
  /\ quota = [o \in Orgs |-> [windowStart |-> 0, used |-> 0]]
  /\ req = [r \in {"r1"} |-> IdleRequest]
  /\ composes = << >>
  /\ backendCreated = {}
  /\ ledgerLog = EmptyLog
  /\ clones = << >>
  /\ lastRead = NoRead
  /\ accessToken = ""

NextOstree ==
  \/ \E r \in DOMAIN req, in \in OstreeInputs : Receive(r, in[1], in[2])
  \/ \E r \in DOMAIN req : Identify(r)
  \/ \E r \in DOMAIN req : CheckAllowList(r)
  \/ \E r \in DOMAIN req : ReserveQuota(r)
  \/ \E r \in DOMAIN req : TranslateRequest(r)
  \/ \E r \in DOMAIN req : Submit(r)
  \/ \E r \in DOMAIN req : Unauthorized(r)
  \/ \E r \in DOMAIN req, resp \in BackendErrors : BackendRespond(r, resp)
  \/ \E r \in DOMAIN req : BackendTimeout(r)
  \/ \E r \in DOMAIN req : Complete(r)

SpecOstree == InitOstree /\ [][NextOstree]_vars

(* ------------------------------------------------------------------ *)
(* Properties                                                          *)
(* ------------------------------------------------------------------ *)
\* the stages in which a request holds a reservation of its organization
Holding == {"QuotaReserved", "Translated", "Submitted", "Persisted"}

\* C1: in every reachable state the counter `used` of every organization is
\* between zero and the organization's limit; in particular it is so right
\* after a reservation was granted.
C1_UsedWithinLimit ==
  \A o \in Orgs : quota[o].used >= 0 /\ quota[o].used <= Limit(o)

\* a reservation was just granted and filled the organization's window
C1_Witness ==
  \E r \in DOMAIN req :
    /\ req[r].pc = "QuotaReserved"
    /\ quota[req[r].org].used = Limit(req[r].org)

\* C2: of the reservations attempted since the counter was last reset or
\* decremented, no more succeed than there were free slots then; so two racing
\* requests of one organization are both granted in a window without release
\* only if two slots were free: with one slot left, at most one succeeds.
C2_NoDoubleGrant ==
  /\ \A o \in Orgs : ledgerLog[o].granted <= ledgerLog[o].free
  /\ \A r1, r2 \in DOMAIN req :
       ( /\ r1 # r2
         /\ req[r1].pc = "QuotaReserved"
         /\ req[r2].pc = "QuotaReserved"
         /\ req[r1].org = req[r2].org
         /\ req[r1].reservedIn = quota[req[r1].org].windowStart
         /\ req[r2].reservedIn = quota[req[r1].org].windowStart
         /\ ~ledgerLog[req[r1].org].released )
       => /\ quota[req[r1].org].used >= 2
          /\ Limit(req[r1].org) >= 2

\* one slot was free, two requests of the organization raced for it, one was
\* granted and the other rejected
C2_Witness ==
  \E r1, r2 \in DOMAIN req :
    /\ r1 # r2
    /\ req[r1].pc = "QuotaReserved"
    /\ req[r2].pc = "Failed"
    /\ req[r2].kind = "QuotaError"
    /\ req[r1].org = req[r2].org
    /\ ledgerLog[req[r1].org].free = 1
    /\ ledgerLog[req[r1].org].granted = 1
    /\ quota[req[r1].org].used = Limit(req[r1].org)

\* a request takes the step from its allow-list check to a granted reservation
Granted(r) == req[r].pc = "AllowListChecked" /\ req'[r].pc = "QuotaReserved"

\* a request takes the step from its allow-list check to a rejected reservation
Rejected(r) == req[r].pc = "AllowListChecked" /\ req'[r].pc = "Failed"

C4_RejectedReserveNoMutation ==
  [][\A r \in DOMAIN req :
       /\ Rejected(r)
            => /\ quota' = quota
               /\ quota[req[r].org].used = Limit(req[r].org)
               /\ req'[r].kind = "QuotaError"
               /\ req'[r].status = 429
               /\ req'[r].submits = 0
               /\ req'[r].out = << >>
               /\ req'[r].id = 0
               /\ composes' = composes
               /\ backendCreated' = backendCreated
       /\ (req[r].pc = "Failed" /\ req[r].kind = "QuotaError")
            => /\ req'[r] \in {req[r], IdleRequest}
               /\ composes' = composes
               /\ backendCreated' = backendCreated
    ]_vars

\* a reservation was rejected
C4_Witness ==
  \E r \in DOMAIN req : req[r].pc = "Failed" /\ req[r].kind = "QuotaError"

\* a request that got past the allow-list check
PassedAllowList(rq) ==
  \/ rq.pc \in {"AllowListChecked", "QuotaReserved", "Translated", "Submitted", "Persisted"}
  \/ rq.pc = "Failed" /\ rq.kind \in {"QuotaError", "ValidationError", "BackendError"}

\* the allow-list policy forbids the distribution to the organization
Forbidden(org, distro) ==
  /\ distro \in RestrictedIn(distsDir)
  /\ ~(allowFile /\ distro \in AllowedDistros /\ org \in AllowedOrgs(distro))

\* C5: the allow-list check comes before the quota reservation: a request the
\* policy forbids never gets past the check, ends with 403 without a
\* reservation, a backend request or a compose id, and the step that rejects
\* it leaves the ledger and the compose records as they were.
C5_ForbiddenConsumesNothing ==
  /\ [](\A r \in DOMAIN req :
          (req[r].org # "" /\ Forbidden(req[r].org, req[r].body.distribution))
          => /\ req[r].pc \in {"IdentityResolved", "Failed"}
             /\ req[r].pc = "Failed"
                  => /\ req[r].kind = "PolicyError"
                     /\ req[r].status = 403
             /\ req[r].reservedIn = -1
             /\ req[r].out = << >>
             /\ req[r].submits = 0
             /\ req[r].id = 0)
  /\ [][\A r \in DOMAIN req :
          (req[r].pc = "IdentityResolved" /\ req'[r].pc = "Failed")
          => /\ quota' = quota
             /\ ledgerLog' = ledgerLog
             /\ composes' = composes
             /\ backendCreated' = backendCreated
       ]_vars

\* a request was rejected by the allow list while its organization had a
\* reservation counted in the ledger
C5_Witness ==
  \E r \in DOMAIN req :
    /\ req[r].pc = "Failed"
    /\ req[r].kind = "PolicyError"
    /\ quota[req[r].org].used > 0

\* C6: every compose record carries an id the backend answered "created"
\* with; a record is written only by the step that takes a submitted request
\* to Persisted on such an answer, and a step that fails a request writes none.
C6_PersistedOnlyIfCreated ==
  /\ [](\A i \in 1..Len(composes) : composes[i].id \in backendCreated)
  /\ [][/\ composes' # composes
          => \E r \in DOMAIN req :
               /\ req[r].pc = "Submitted"
               /\ req'[r].pc = "Persisted"
               /\ req'[r].status = 201
               /\ req'[r].id \in backendCreated' \ backendCreated
               /\ composes' = Append(composes, [id |-> req'[r].id, org |-> req[r].org,
                                                request |-> Marshal(req[r].body)])
        /\ \A r \in DOMAIN req :
             (req[r].pc = "Submitted" /\ req'[r].pc = "Failed")
             => /\ composes' = composes
                /\ req'[r].id = 0
                /\ req'[r].status \in {400, 500, 503}
       ]_vars

\* one compose was created and recorded; a later submission was answered
\* otherwise and failed, leaving that one record
C6_Witness ==
  \E r \in DOMAIN req :
    /\ req[r].pc = "Failed"
    /\ req[r].kind = "BackendError"
    /\ req[r].status = 500
    /\ Len(composes) = 1
    /\ backendCreated = {1}

\* what the translator requires of a compose request, stated on the request
ResolvesToAws(sources) == \A i \in 1..Len(sources) : sources[i] = "1"

WellFormedUpload(ir) ==
  LET o == ir.options IN
  \/ ir.uploadType \in {"aws.s3", "gcp"}
  \/ /\ ir.uploadType = "aws"
     /\ Len(o.shareWithAccounts) + Len(o.shareWithSources) > 0
     /\ ResolvesToAws(o.shareWithSources)
  \/ /\ ir.uploadType = "azure"
     /\ \/ o.sourceId = "2" /\ o.subscriptionId = NULL /\ o.tenantId = NULL
        \/ o.sourceId = NULL /\ o.subscriptionId # NULL /\ o.tenantId # NULL

WellFormed(b) ==
  /\ Len(b.imageRequests) = 1
  /\ b.imageRequests[1].architecture \in {"x86_64", "aarch64"}
  /\ WellFormedUpload(b.imageRequests[1])
  /\ b.users => b.imageRequests[1].imageType \in InstallerImageTypes

\* C7: translation is all or nothing: a request that breaks a validation rule
\* ends Failed with a 400 validation error and without a backend request, a
\* submission or a compose id, and the failing step writes no compose record;
\* only requests that break no rule are translated, submitted or persisted.
C7_AllOrNothing ==
  /\ [](\A r \in DOMAIN req :
          /\ (req[r].pc \notin {"Idle", "Received"} /\ ~WellFormed(req[r].body))
               => /\ req[r].pc \notin {"Translated", "Submitted", "Persisted"}
                  /\ req[r].kind # "BackendError"
                  /\ req[r].out = << >>
                  /\ req[r].submits = 0
                  /\ req[r].id = 0
          /\ req[r].kind = "ValidationError"
               => /\ req[r].pc = "Failed"
                  /\ req[r].status = 400
                  /\ ~WellFormed(req[r].body)
                  /\ req[r].out = << >>
          /\ req[r].pc \in {"Translated", "Submitted", "Persisted"}
               => req[r].out = Translate(req[r].body).out /\ Len(req[r].out) = 1)
  /\ [][\A r \in DOMAIN req :
          (req[r].pc = "QuotaReserved" /\ req'[r].pc = "Failed")
          => /\ composes' = composes
             /\ backendCreated' = backendCreated
             /\ req'[r].kind = "ValidationError"
       ]_vars

\* a request with an upload type the translator does not know was rejected
C7_Witness ==
  \E r \in DOMAIN req :
    /\ req[r].pc = "Failed"
    /\ req[r].kind = "ValidationError"
    /\ req[r].msg = UploadTypeMessage
    /\ req[r].body.imageRequests[1].uploadType = "unknown"

\* C8 as stated: without an allow file no compose request is answered 403.
C8_Original ==
  ~allowFile => \A r \in DOMAIN req : req[r].status # 403

\* C8 as amended: without an allow file the allow list is empty: a request is
\* answered 403 by the allow-list step exactly when its distribution is
\* restricted in the registry, whatever the organization; requests for
\* unrestricted distributions all pass the step.
C8_NoFileOnlyUnrestricted ==
  ~allowFile =>
    \A r \in DOMAIN req :
      /\ req[r].kind = "PolicyError"
           => /\ req[r].status = 403
              /\ req[r].body.distribution \in RestrictedIn(distsDir)
      /\ req[r].status = 403 => req[r].kind = "PolicyError"
      /\ PassedAllowList(req[r])
           => req[r].body.distribution \notin RestrictedIn(distsDir)

\* without an allow file, a request for a restricted distribution was
\* answered 403 by the allow-list step
C8_Witness ==
  /\ ~allowFile
  /\ \E r \in DOMAIN req :
       /\ req[r].pc = "Failed"
       /\ req[r].kind = "PolicyError"
       /\ req[r].body.distribution = "centos-8"
       /\ req[r].org = Org0

AzureShapeValid(o) ==
  \/ o.sourceId # NULL /\ o.subscriptionId = NULL /\ o.tenantId = NULL
  \/ o.sourceId = NULL /\ o.subscriptionId # NULL /\ o.tenantId # NULL

C10_AzureCombinations ==
  \A r \in DOMAIN req :
    LET b == req[r].body
        ir == b.imageRequests[1]
        o == ir.options
        translated == \/ req[r].pc \in {"Translated", "Submitted", "Persisted"}
                      \/ req[r].pc = "Failed" /\ req[r].kind = "BackendError"
        rejected == req[r].pc = "Failed" /\ req[r].kind = "ValidationError"
    IN (Len(b.imageRequests) = 1 /\ ir.uploadType = "azure"
          /\ ir.architecture = "x86_64")
       => /\ translated => AzureShapeValid(o)
          /\ (rejected /\ ~AzureShapeValid(o))
               => req[r].status = 400 /\ req[r].msg = AzureMessage
          /\ (rejected /\ AzureShapeValid(o)) => req[r].msg # AzureMessage
          /\ (rejected /\ AzureShapeValid(o) /\ ~b.users)
               => o.sourceId = "9" /\ req[r].msg = SourceMessage

\* all three identifiers were given and the request was rejected with the
\* canonical message
C10_Witness ==
  \E r \in DOMAIN req :
    /\ req[r].pc = "Failed"
    /\ req[r].msg = AzureMessage
    /\ req[r].body.imageRequests[1].options.sourceId = "2"
    /\ req[r].body.imageRequests[1].options.subscriptionId = "id"
    /\ req[r].body.imageRequests[1].options.tenantId = "tenant"

\* the request got past the translator
PastTranslation(rq) ==
  \/ rq.pc \in {"Translated", "Submitted", "Persisted"}
  \/ rq.pc = "Failed" /\ rq.kind = "BackendError"

\* the translator rejected the request
Invalid(rq) == rq.pc = "Failed" /\ rq.kind = "ValidationError"

\* C11: a request with no image request is rejected with 400 and the
\* "minimum number of items" message, one with more than one with 400 and the
\* distinct "maximum number of items" message, and only a request with
\* exactly one image request gets past the translator.
C11_ExactlyOneImageRequest ==
  /\ MinItemsMessage # MaxItemsMessage
  /\ \A r \in DOMAIN req :
       LET n == Len(req[r].body.imageRequests) IN
       /\ PastTranslation(req[r]) => n = 1
       /\ (Invalid(req[r]) /\ n = 0)
            => req[r].status = 400 /\ req[r].msg = MinItemsMessage
       /\ (Invalid(req[r]) /\ n > 1)
            => req[r].status = 400 /\ req[r].msg = MaxItemsMessage
       /\ req[r].msg = MinItemsMessage => n = 0
       /\ req[r].msg = MaxItemsMessage => n > 1
       /\ (req[r].pc = "Failed" /\ n # 1)
            => /\ req[r].submits = 0
               /\ req[r].out = << >>

\* a request with two image requests was rejected
C11_Witness ==
  \E r \in DOMAIN req :
    /\ Invalid(req[r])
    /\ Len(req[r].body.imageRequests) = 2
    /\ req[r].msg = MaxItemsMessage

\* C12: with one image request of type aws, ami, azure or vhd, a filesystem
\* whose minSize entries sum to more than FSMaxSize is rejected with 400 and
\* the message of its cloud family; a sum of FSMaxSize or less is never
\* rejected by this rule, nor is any sum for another image type.
C12_FilesystemCeiling ==
  /\ AwsSizeMessage # AzureSizeMessage
  /\ \A r \in DOMAIN req :
       LET b == req[r].body
           it == b.imageRequests[1].imageType
           total == TotalSize(b.filesystem)
       IN Len(b.imageRequests) = 1 =>
            /\ (total > FSMaxSize /\ it \in AwsImageTypes \cup AzureImageTypes)
                 => /\ ~PastTranslation(req[r])
                    /\ Invalid(req[r])
                         => /\ req[r].status = 400
                            /\ req[r].msg = IF it \in AwsImageTypes
                                            THEN AwsSizeMessage
                                            ELSE AzureSizeMessage
            /\ req[r].msg \in {AwsSizeMessage, AzureSizeMessage}
                 => /\ total > FSMaxSize
                    /\ it \in AwsImageTypes \cup AzureImageTypes
            /\ (Invalid(req[r]) /\ total <= FSMaxSize)
                 => req[r].msg = UsersMessage

\* a vhd request of 66 GiB was rejected with the Azure message
C12_Witness ==
  \E r \in DOMAIN req :
    /\ Invalid(req[r])
    /\ Len(req[r].body.imageRequests) = 1
    /\ req[r].body.imageRequests[1].imageType = "vhd"
    /\ TotalSize(req[r].body.filesystem) = FSMaxSize + 2
    /\ req[r].msg = AzureSizeMessage

\* C13: a request with customizations.users gets past the translator only
\* when its image type is an installer type; for any other image type it is
\* rejected with 400, and with the users message when it breaks no earlier
\* rule; the users message is given to no other request.
C13_UsersOnlyForInstallers ==
  \A r \in DOMAIN req :
    LET b == req[r].body
        it == b.imageRequests[1].imageType
    IN Len(b.imageRequests) = 1 =>
         /\ (b.users /\ PastTranslation(req[r])) => it \in InstallerImageTypes
         /\ (b.users /\ it \notin InstallerImageTypes /\ Invalid(req[r]))
              => /\ req[r].status = 400
                 /\ SizeMessage(it, b.filesystem) = "" => req[r].msg = UsersMessage
         /\ req[r].msg = UsersMessage
              => b.users /\ it \notin InstallerImageTypes
         /\ (b.users /\ it \in InstallerImageTypes) => ~Invalid(req[r])

\* users were customized for an installer image and the compose was created
C13_Witness ==
  \E r \in DOMAIN req :
    /\ req[r].pc = "Persisted"
    /\ req[r].body.users
    /\ req[r].body.imageRequests[1].imageType = "rhel-edge-installer"

\* the identity resolver has looked at the request's header
Identified(rq) == rq.pc \notin {"Idle", "Received"}

\* C14: a header that is absent, not base64, not JSON or without organization
\* id fails identity resolution with 400 and a message of its own; the step
\* that fails it changes nothing but the request, and the failed request has
\* no organization, no reservation, no backend request and no compose id.
C14_IdentityFailures ==
  /\ [](\A r \in DOMAIN req :
          LET h == req[r].header IN
          /\ (Identified(req[r]) /\ (h.kind # "identity" \/ h.org = ""))
               => /\ req[r].pc = "Failed"
                  /\ req[r].kind = "IdentityError"
                  /\ req[r].status = 400
                  /\ req[r].msg =
                       IF h.kind = "missing" THEN "missing x-rh-identity header"
                       ELSE IF h.kind = "notbase64"
                       THEN "unable to b64 decode x-rh-identity header"
                       ELSE IF h.kind = "notjson" THEN "does not contain valid JSON"
                       ELSE "invalid or missing org_id"
          /\ req[r].kind = "IdentityError"
               => /\ h.kind # "identity" \/ h.org = ""
                  /\ req[r].org = ""
                  /\ req[r].reservedIn = -1
                  /\ req[r].submits = 0
                  /\ req[r].out = << >>
                  /\ req[r].id = 0)
  /\ [][\A r \in DOMAIN req :
          (req[r].kind # "IdentityError" /\ req'[r].kind = "IdentityError")
            => /\ req[r].pc = "Received"
               /\ UNCHANGED <<quota, ledgerLog, composes, backendCreated, clones>>]_vars

\* a header that is base64 but not JSON was refused
C14_Witness ==
  \E r \in DOMAIN req :
    /\ req[r].kind = "IdentityError"
    /\ req[r].header.kind = "notjson"
    /\ req[r].msg = "does not contain valid JSON"

\* C15: an identity with an organization id is accepted whether or not it
\* has an account number, and the request goes on under that organization;
\* an identity without organization id is refused whatever its account
\* number.
C15_AccountOptionalOrgRequired ==
  \A r \in DOMAIN req :
    LET h == req[r].header IN
    (Identified(req[r]) /\ h.kind = "identity") =>
      /\ h.org # "" => /\ req[r].kind # "IdentityError"
                       /\ req[r].org = h.org
      /\ h.org = "" => /\ req[r].pc = "Failed"
                       /\ req[r].kind = "IdentityError"
                       /\ req[r].status = 400

\* a caller without account number got a compose created
C15_Witness ==
  \E r \in DOMAIN req :
    /\ req[r].pc = "Persisted"
    /\ req[r].header.account = ""
    /\ req[r].org = Org0

\* a compose record with this id exists for this organization
Owns(org, id) ==
  \E i \in 1..Len(composes) : composes[i].id = id /\ composes[i].org = org

\* C16: a status or metadata read of an id for which the caller's
\* organization has no compose record is answered 404 "Compose not found"
\* with no body, also when another organization has a record with that id;
\* a read is answered 200 only from a record of the caller's organization.
C16_NotFoundAcrossOrgs ==
  (lastRead.op \in {"status", "metadata"} /\ lastRead.status # 400) =>
    /\ ~Owns(lastRead.org, lastRead.id)
         => /\ lastRead.status = 404
            /\ lastRead.msg = "Compose not found"
            /\ lastRead.body = NULL
    /\ lastRead.status = 200
         => /\ Owns(lastRead.org, lastRead.id)
            /\ lastRead.op = "status"
                 => \E i \in 1..Len(composes) :
                      /\ composes[i].id = lastRead.id
                      /\ composes[i].org = lastRead.org
                      /\ lastRead.body.request = Unmarshal(composes[i].request)
    /\ lastRead.status \in {200, 404}

\* the compose exists, for another organization than the caller's
C16_Witness ==
  /\ lastRead.op = "status"
  /\ lastRead.status = 404
  /\ lastRead.org = Org0
  /\ \E i \in 1..Len(composes) :
       composes[i].id = lastRead.id /\ composes[i].org = Org1

C18_Original ==
  (lastRead.op = "status" /\ lastRead.status = 200 /\ lastRead.backend[1].error # << >>)
    => lastRead.body.imageStatus.error =
         <<[id |-> lastRead.backend[1].error[1].id,
            reason |-> lastRead.backend[1].error[1].reason,
            details |-> lastRead.backend[1].error[1].details]>>

\* C18 as amended: when the backend's error nests further errors in its
\* details, the public status carries the innermost of them (id and reason,
\* no details); an error without details is carried as it is.
C18_InnermostError ==
  (lastRead.op = "status" /\ lastRead.status = 200) =>
    LET e1 == lastRead.backend[1].error[1]
        e2 == IF e1.details # << >> THEN e1.details[1] ELSE e1
        e3 == IF e2.details # << >> THEN e2.details[1] ELSE e2
    IN /\ lastRead.body.imageStatus.status = lastRead.backend[1].status
       /\ lastRead.backend[1].error = << >>
            => lastRead.body.imageStatus.error = << >>
       /\ lastRead.backend[1].error # << >>
            => /\ e3.details = << >>
               /\ lastRead.body.imageStatus.error =
                    <<[id |-> e3.id, reason |-> e3.reason, details |-> << >>]>>

\* the failure 9 -> 5 -> 23 was read as error 23
C18_Witness ==
  /\ lastRead.op = "status"
  /\ lastRead.status = 200
  /\ lastRead.backend[1].error = <<DependencyError>>
  /\ lastRead.body.imageStatus.error[1].id = 23

\* the answer to a compose list read holds the records of the caller's
\* organization, first created first when oldestFirst, last created first
\* otherwise, and their count
ListAnswer(answer, oldestFirst) ==
  LET Mine(c) == c.org = answer.org
      mine == SelectSeq(composes, Mine)
      n == Len(mine)
  IN /\ answer.body.count = n
     /\ Len(answer.body.data) = n
     /\ \A i \in 1..n :
          /\ answer.body.data[i].id = mine[IF oldestFirst THEN i ELSE n + 1 - i].id
          /\ answer.body.data[i].request =
               Unmarshal(mine[IF oldestFirst THEN i ELSE n + 1 - i].request)

\* C19 as stated: the list is ordered by creation time, newest record last.
C19_Original ==
  [][(lastRead = NoRead /\ lastRead' # NoRead /\ lastRead'.op = "list"
        /\ lastRead'.status = 200)
       => ListAnswer(lastRead', TRUE)]_vars

\* C19 as amended: the list holds exactly the records of the caller's
\* organization, newest record first (the first-created record is last), and
\* its count is the number of those records.
C19_NewestFirst ==
  [][(lastRead = NoRead /\ lastRead' # NoRead /\ lastRead'.op = "list"
        /\ lastRead'.status = 200)
       => ListAnswer(lastRead', FALSE)]_vars

\* two composes of the caller were listed, the later one first
C19_Witness ==
  /\ lastRead.op = "list"
  /\ lastRead.status = 200
  /\ lastRead.body.count = 2
  /\ lastRead.body.data[1].id = 2
  /\ lastRead.body.data[2].id = 1

\* C20: a clone submission answered 201 has written a clone record with the
\* clone id, the parent and the request as submitted; clone records are never
\* changed or removed; a clone listing for a compose of the caller holds every
\* clone record of that parent, with its id and request, and is empty while
\* the parent has none.
C20_ClonesListed ==
  /\ [][\E n \in 0..1 :
          /\ Len(clones') = Len(clones) + n
          /\ SubSeq(clones', 1, Len(clones)) = clones]_vars
  /\ [][(lastRead = NoRead /\ lastRead' # NoRead /\ lastRead'.op = "clone")
          => IF lastRead'.status = 201
             THEN clones' = Append(clones, [id |-> lastRead'.body.id,
                                            composeId |-> lastRead'.id,
                                            request |-> lastRead'.input])
             ELSE clones' = clones]_vars
  /\ [][(lastRead = NoRead /\ lastRead' # NoRead /\ lastRead'.op = "clones"
           /\ lastRead'.status = 200 /\ Owns(lastRead'.org, lastRead'.id))
          => LET Child(c) == c.composeId = lastRead'.id
                 children == SelectSeq(clones, Child)
             IN /\ Len(lastRead'.body.data) = Len(children)
                /\ \A i \in 1..Len(children) :
                     \E k \in 1..Len(children) :
                       /\ lastRead'.body.data[k].id = children[i].id
                       /\ lastRead'.body.data[k].request = children[i].request]_vars

\* the clone submitted with ShareWithSources ["1"] is in the listing
C20_Witness ==
  /\ lastRead.op = "clones"
  /\ lastRead.status = 200
  /\ Len(lastRead.body.data) = 1
  /\ lastRead.body.data[1].request = CloneRequest(<< >>, <<"1">>)
  /\ \E i \in 1..Len(clones) :
       clones[i].id = lastRead.body.data[1].id /\ clones[i].composeId = lastRead.id

\* the sources all resolve to an AWS account
AwsKnown(sources) ==
  \A i \in 1..Len(sources) : UploadInfo(sources[i]).aws # << >>

\* the account ids the collaborator gives for the sources
AwsAccountsOf(sources) ==
  [i \in 1..Len(sources) |-> UploadInfo(sources[i]).aws[1].accountId]

\* C21: the backend request of a compose that shares with sources carries the
\* given accounts followed by the account ids the collaborator resolves the
\* sources to, that of an Azure compose naming a source the subscription and
\* tenant the collaborator gives, and the request is posted only with them in
\* it; a compose with a source the collaborator cannot resolve fails in
\* translation and is never posted. Likewise a clone request: the backend is
\* sent the resolved account ids, and nothing when a source does not resolve,
\* and then no clone record is written.
C21_SourcesResolved ==
  /\ [](\A r \in DOMAIN req :
          LET b == req[r].body
              ir == b.imageRequests[1]
              o == ir.options
              known == IF ir.uploadType = "aws" THEN AwsKnown(o.shareWithSources)
                       ELSE UploadInfo(o.sourceId).azure # << >>
          IN (Len(b.imageRequests) = 1 /\ req[r].pc \notin {"Idle", "Received"}) =>
               /\ req[r].submits > 0 => Len(req[r].out) = 1
               /\ (Len(req[r].out) = 1 /\ ir.uploadType = "aws")
                    => /\ known
                       /\ req[r].out[1].imageRequest.uploadOptions.shareWithAccounts =
                            o.shareWithAccounts \o AwsAccountsOf(o.shareWithSources)
               /\ (Len(req[r].out) = 1 /\ ir.uploadType = "azure")
                    => /\ known
                       /\ req[r].out[1].imageRequest.uploadOptions.subscriptionId =
                            UploadInfo(o.sourceId).azure[1].subscriptionId
                       /\ req[r].out[1].imageRequest.uploadOptions.tenantId =
                            UploadInfo(o.sourceId).azure[1].tenantId
               /\ ~known
                    => /\ req[r].pc \notin {"Translated", "Submitted", "Persisted"}
                       /\ req[r].submits = 0
                       /\ req[r].out = << >>
                       /\ req[r].pc = "Failed" /\ req[r].kind # "QuotaError"
                            => /\ req[r].kind = "ValidationError"
                               /\ req[r].msg = SourceMessage)
  /\ [][(lastRead = NoRead /\ lastRead' # NoRead /\ lastRead'.op = "clone"
           /\ lastRead'.org # "" /\ lastRead'.status # 404)
          => LET creq == lastRead'.input IN
             IF AwsKnown(creq.shareWithSources)
             THEN /\ Len(lastRead'.backend) >= 1
                  /\ \A k \in 1..Len(lastRead'.backend) :
                       lastRead'.backend[k].shareWithAccounts =
                         creq.shareWithAccounts \o AwsAccountsOf(creq.shareWithSources)
             ELSE /\ lastRead'.backend = << >>
                  /\ lastRead'.status # 201
                  /\ lastRead'.msg = SourceMessage
                  /\ clones' = clones]_vars

\* a compose shared with source 1 was created with the account id of the
\* source in its backend request, and a clone of a compose, shared with an
\* account and source 1, was sent to the backend with both account ids
C21_Witness ==
  /\ \E r \in DOMAIN req :
       /\ req[r].pc = "Persisted"
       /\ req[r].body.imageRequests[1].options.shareWithSources = <<"1">>
       /\ req[r].out[1].imageRequest.uploadOptions.shareWithAccounts =
            <<"123456123456">>
  /\ lastRead.op = "clone"
  /\ lastRead.status = 201
  /\ lastRead.backend[1].shareWithAccounts = <<"test-account", "123456123456">>

\* C22: a submission the backend answers with a status other than 201 ends
\* Failed with 500, unless the answer is the backend's OSTree resolution error
\* (error 10), which ends it with 400 and a message of its own; an answer of
\* 201 whose body holds no compose id ends it with 500; only 201 with a compose
\* id creates the compose.
C22_BackendFailureStatus ==
  \A r \in DOMAIN req :
    req[r].resp # << >> =>
      LET resp == req[r].resp[1]
          failed == /\ req[r].pc = "Failed"
                    /\ req[r].kind = "BackendError"
                    /\ req[r].id = 0
      IN /\ (resp.status # 201 /\ resp.body # "error10")
              => failed /\ req[r].status = 500
         /\ (resp.status # 201 /\ resp.body = "error10")
              => /\ failed
                 /\ req[r].status = 400
                 /\ req[r].msg = "Error resolving OSTree repo"
         /\ (resp.status = 201 /\ resp.body # "composeId")
              => /\ failed
                 /\ req[r].status = 500
                 /\ req[r].msg = "Internal Server Error"
         /\ (resp.status = 201 /\ resp.body = "composeId")
              => req[r].pc = "Persisted" /\ req[r].status = 201
         /\ req[r].msg = "Error resolving OSTree repo" => resp.body = "error10"

\* the backend answered with its OSTree resolution error and the caller got 400
C22_Witness ==
  \E r \in DOMAIN req :
    /\ req[r].pc = "Failed"
    /\ req[r].resp = <<[status |-> 200, body |-> "error10"]>>
    /\ req[r].status = 400

\* C23: every clone record names a parent that exists, and exactly one
\* compose record has that id; a clone submission for an id the caller's
\* organization has no compose record of (absent, or another organization's)
\* is answered 404 without a call to the backend and without a clone record;
\* a clone record is written only by a submission answered 201 for a compose
\* of the caller.
C23_CloneNeedsOwnedParent ==
  /\ [](\A i \in 1..Len(clones) :
          Cardinality({j \in 1..Len(composes) :
                         composes[j].id = clones[i].composeId}) = 1)
  /\ [][/\ (lastRead = NoRead /\ lastRead' # NoRead /\ lastRead'.op = "clone"
             /\ lastRead'.org # "" /\ ~Owns(lastRead'.org, lastRead'.id))
            => /\ lastRead'.status = 404
               /\ lastRead'.backend = << >>
               /\ lastRead'.body = NULL
               /\ clones' = clones
        /\ clones' # clones
            => /\ lastRead = NoRead
               /\ lastRead'.op = "clone"
               /\ lastRead'.status = 201
               /\ Owns(lastRead'.org, lastRead'.id)
               /\ clones'[Len(clones')].composeId = lastRead'.id
        /\ composes' # composes => Len(composes') = Len(composes) + 1
       ]_vars

\* a compose has a clone, and a caller of another organization who asked to
\* clone it was answered 404
C23_Witness ==
  /\ lastRead.op = "clone"
  /\ lastRead.status = 404
  /\ Len(clones) = 1
  /\ clones[1].composeId = lastRead.id
  /\ \E i \in 1..Len(composes) :
       composes[i].id = lastRead.id /\ composes[i].org # lastRead.org

\* the states of a request on its way to the backend, in their order
Stages ==
  <<"Received", "IdentityResolved", "AllowListChecked", "QuotaReserved",
    "Translated", "Submitted">>

Position(pc) == CHOOSE i \in 1..Len(Stages) : Stages[i] = pc

\* C24: a request changes state only from Received through IdentityResolved,
\* AllowListChecked, QuotaReserved and Translated to Submitted, one state at a
\* time, from Submitted to Persisted, or from one of these states to Failed;
\* it leaves Persisted and Failed only when it is done. So a request past a
\* state carries what that state gave it: a Persisted request has an
\* organization the allow list admits, a reservation, a backend request that
\* was posted, and the backend's answer.
C24_StagesInOrder ==
  /\ [][\A r \in DOMAIN req :
          req'[r].pc # req[r].pc =>
            \/ req[r].pc = "Idle" /\ req'[r].pc = "Received"
            \/ /\ \E i \in 1..Len(Stages) : Stages[i] = req[r].pc
               /\ \/ req'[r].pc = "Failed"
                  \/ /\ Position(req[r].pc) < Len(Stages)
                     /\ req'[r].pc = Stages[Position(req[r].pc) + 1]
                  \/ req[r].pc = "Submitted" /\ req'[r].pc = "Persisted"
            \/ req[r].pc \in Terminal /\ req'[r].pc = "Idle"]_vars
  /\ [](\A r \in DOMAIN req :
          LET past(i) == \/ req[r].pc = "Persisted"
                         \/ \E k \in i..Len(Stages) : Stages[k] = req[r].pc
          IN /\ past(2) => req[r].org # "" /\ req[r].org = req[r].header.org
             /\ past(3) => IsAllowed(allowFile, distsDir, req[r].org,
                                      req[r].body.distribution)
             /\ past(4) => req[r].reservedIn >= 0 /\ req[r].usedBefore >= 0
             /\ past(5) => /\ Len(req[r].out) = 1
                            /\ req[r].out = Translate(req[r].body).out
             /\ past(6) => req[r].submits >= 1
             /\ req[r].pc = "Persisted" => Len(req[r].resp) = 1)

\* a compose was created: its request went through every state
C24_Witness ==
  \E r \in DOMAIN req :
    /\ req[r].pc = "Persisted"
    /\ req[r].org = Org1
    /\ req[r].reservedIn >= 0
    /\ Len(req[r].out) = 1
    /\ req[r].submits >= 1

\* the backend call of the request failed or was cut off
BackendFailed(rq) == rq.pc = "Failed" /\ rq.kind = "BackendError"

C26_InvalidRequestKeepsSlot ==
  /\ [][/\ quota' # quota
            => \E r \in DOMAIN req :
                 \/ /\ req[r].pc = "AllowListChecked"
                    /\ req'[r].pc = "QuotaReserved"
                    /\ quota'[req[r].org].used =
                         (IF now - quota[req[r].org].windowStart >= Window(req[r].org)
                          THEN 0 ELSE quota[req[r].org].used) + 1
                 \/ req[r].pc = "Submitted" /\ req'[r].pc = "Failed"
        /\ \A r \in DOMAIN req :
             /\ req'[r].kind = "ValidationError" /\ req[r].kind # "ValidationError"
                  => /\ req[r].pc = "QuotaReserved"
                     /\ quota' = quota
                     /\ ledgerLog' = ledgerLog
             /\ req'[r].pc = "Translated" /\ req[r].pc # "Translated"
                  => req[r].pc = "QuotaReserved"]_vars
  /\ [](\A r \in DOMAIN req :
          Invalid(req[r]) =>
            /\ IsAllowed(allowFile, distsDir, req[r].org, req[r].body.distribution)
            /\ req[r].submits = 0
            /\ quota[req[r].org] =
                 [windowStart |-> req[r].reservedIn,
                  used |-> (IF req[r].reservedIn = req[r].startBefore
                            THEN req[r].usedBefore ELSE 0) + 1])

\* a request failed in translation and holds the last slot of its
\* organization, after another one
C26_Witness ==
  \E r \in DOMAIN req :
    /\ Invalid(req[r])
    /\ req[r].usedBefore = Limit(req[r].org) - 1
    /\ req[r].usedBefore >= 1
    /\ quota[req[r].org].used = Limit(req[r].org)

(* ------------------------------------------------------------------ *)
(* C27: one submission per inbound request                             *)
(* ------------------------------------------------------------------ *)
\* C27 as stated: an inbound request makes at most one submit call to the
\* backend, whatever the backend answers
C27_Original ==
  \A r \in DOMAIN req : req[r].submits <= 1

\* the call of request r is posted for the first time
FirstCall(r) ==
  /\ req[r].pc = "Translated"
  /\ req[r].submits = 0
  /\ req'[r].pc = "Submitted"
  /\ req'[r].submits = 1

\* the call of request r is posted again: the first call bore no token, no
\* answer other than the 401 was read, and the token has now been fetched
SecondCall(r) ==
  /\ req[r].pc = "Submitted"
  /\ req[r].submits = 1
  /\ req[r].bearer = ""
  /\ req[r].resp = << >>
  /\ req'[r].pc = "Submitted"
  /\ req'[r].submits = 2
  /\ req'[r].bearer = AccessToken
  /\ accessToken' = AccessToken

\* C27: a submit call is posted once per inbound request and posted a second
\* time only when the first call bore no bearer token and was answered 401;
\* a call the backend answered otherwise, or that timed out, is never posted
\* again, a failure is reported to the caller instead, and one inbound
\* request never creates two backend composes; a clone is posted the same way
C27_NoRetryButUnauthorized ==
  /\ [](\A r \in DOMAIN req :
          /\ req[r].submits <= 2
          /\ req[r].resp # << >> => req[r].pc \in Terminal
          /\ req[r].pc = "Failed" /\ req[r].submits > 0 => req[r].status >= 400)
  /\ [][/\ \A r \in DOMAIN req :
            /\ req'[r].submits # req[r].submits =>
                 \/ FirstCall(r)
                 \/ SecondCall(r)
                 \/ req[r].pc \in Terminal /\ req'[r] = IdleRequest
            /\ req[r].pc \in Terminal =>
                 req'[r] = req[r] \/ req'[r] = IdleRequest
        /\ Cardinality(backendCreated' \ backendCreated) <= 1
        /\ backendCreated' # backendCreated =>
             \E p \in DOMAIN req :
               /\ req[p].pc = "Submitted"
               /\ req'[p].pc \in Terminal
               /\ \A q \in DOMAIN req \ {p} : req'[q] = req[q]
        /\ lastRead = NoRead /\ lastRead' # NoRead /\ lastRead'.op = "clone" =>
             /\ Len(lastRead'.backend) <= 2
             /\ Len(lastRead'.backend) = 2 =>
                  accessToken = "" /\ accessToken' = AccessToken
             /\ Len(clones') <= Len(clones) + 1]_vars

\* a request whose first call bore no token was posted twice and created
\* one compose
C27_Witness ==
  \E r \in DOMAIN req :
    /\ req[r].pc = "Persisted"
    /\ req[r].submits = 2
    /\ req[r].id \in backendCreated

(* ------------------------------------------------------------------ *)
(* C28: every request ends                                             *)
(* ------------------------------------------------------------------ *)
\* C28: every compose request that was received eventually reaches Persisted
\* or Failed; a backend call that stays open is cut off, and the step that
\* cuts it off ends the request in Failed with "backend unavailable" and
\* gives the reservation back: the organization's used counter goes down by
\* one (a counter already at zero stays there) and nothing else in the ledger
\* changes
C28_EventuallyTerminal ==
  /\ \A r \in LiveRequests :
       (req[r].pc \notin {"Idle"} \cup Terminal) ~> (req[r].pc \in Terminal)
  /\ \A r \in LiveRequests :
       (req[r].pc = "Submitted") ~> (req[r].pc \in Terminal)
  /\ [][\A r \in LiveRequests :
          (req[r].pc = "Submitted" /\ req'[r].pc = "Failed" /\ req'[r].resp = << >>)
          => LET o == req[r].org IN
             /\ req'[r].status = 503
             /\ req'[r].kind = "BackendError"
             /\ quota' = [quota EXCEPT ![o].used = IF @ >= 1 THEN @ - 1 ELSE 0]
             /\ composes' = composes
             /\ backendCreated' = backendCreated]_vars

\* a call the backend never answered was cut off and its slot given back
C28_Witness ==
  \E r \in LiveRequests :
    /\ req[r].pc = "Failed"
    /\ req[r].submits > 0
    /\ req[r].resp = << >>
    /\ req[r].status = 503
    /\ quota[req[r].org].used = 0

(* ------------------------------------------------------------------ *)
(* C29: OSTree options                                                 *)
(* ------------------------------------------------------------------ *)
\* C29: the backend request carries no OSTree block when the public request
\* has none; when it has one, the backend block has each of ref, url,
\* contenturl, parent and rhsm that is set, with the same value, and has not
\* those that are not set (an rhsm of false is set, and stays false)
C29_OSTreeFieldForField ==
  /\ \A b \in OSTreeBlocks :
       /\ b = << >> <=> BuildOSTreeOptions(b) = << >>
       /\ b # << >> =>
            \A k \in OSTreeKeys : BuildOSTreeOptions(b)[1][k] = b[1][k]
  /\ \A r \in DOMAIN req :
       req[r].out # << >> =>
         LET pub == req[r].body.imageRequests[1].ostree
             sent == req[r].out[1].imageRequest.ostree
         IN /\ pub = << >> <=> sent = << >>
            /\ pub # << >> =>
                 /\ DOMAIN sent[1] = OSTreeKeys
                 /\ \A k \in OSTreeKeys : sent[1][k] = pub[1][k]

\* a request with a content url and an rhsm of false, and nothing else, was
\* translated and submitted
C29_Witness ==
  \E r \in DOMAIN req :
    /\ req[r].pc = "Submitted"
    /\ req[r].body.imageRequests[1].ostree =
         <<OSTree(<< >>, << >>, <<"https://ostree.srv/content">>, << >>, <<FALSE>>)>>
    /\ req[r].out[1].imageRequest.ostree[1].contenturl = <<"https://ostree.srv/content">>
    /\ req[r].out[1].imageRequest.ostree[1].rhsm = <<FALSE>>
    /\ req[r].out[1].imageRequest.ostree[1].ref = << >>

(* ------------------------------------------------------------------ *)
(* C30: the quota of one organization is no other's                    *)
(* ------------------------------------------------------------------ *)
\* C30: a step changes the ledger row (windowStart, used) of an organization
\* only when a request of that organization reserves or has its reservation
\* released, so a reservation, a release or a window reset for one
\* organization leaves every other row as it was; and whether a reservation
\* is granted or rejected (429) is decided by the row of the request's own
\* organization alone: with room in it, or its window elapsed, the
\* reservation is granted, however full the other rows are
C30_QuotaIsolated ==
  [][/\ \A o \in Orgs :
          quota'[o] # quota[o] =>
            \E r \in DOMAIN req :
              /\ req[r].org = o
              /\ Granted(r) \/ (req[r].pc = "Submitted" /\ req'[r].pc = "Failed")
              /\ \A p \in Orgs \ {o} : quota'[p] = quota[p]
     /\ \A r \in DOMAIN req :
          req[r].pc = "AllowListChecked" /\ req'[r].pc # "AllowListChecked" =>
            LET o == req[r].org IN
            IF now - quota[o].windowStart >= Window(o) \/ quota[o].used < Limit(o)
            THEN req'[r].pc = "QuotaReserved"
            ELSE req'[r].pc = "Failed" /\ req'[r].status = 429]_vars

\* one organization has used up its window and is being refused while a
\* request of the other organization holds a reservation it was just granted
C30_Witness ==
  /\ quota[Org0].used = Limit(Org0)
  /\ now - quota[Org0].windowStart < Window(Org0)
  /\ \E r \in DOMAIN req :
       req[r].org = Org0 /\ req[r].pc = "Failed" /\ req[r].status = 429
  /\ \E r \in DOMAIN req :
       /\ req[r].org = Org1
       /\ req[r].pc = "QuotaReserved"
       /\ quota[Org1].used = 1
====
